---- MODULE Spec2Model ----
(***************************************************************************)
(* A model of memfs (src/src/memfs.rs): an in-memory file system with a    *)
(* directory tree, a table of file descriptors, a pool of file buffers and *)
(* three builds that differ in how the maps are protected (cargo features   *)
(* "coarse-grained", "fine-grained" and "lock-free").                       *)
(*                                                                         *)
(* A path is modelled by the result of path.split("/"): the sequence of    *)
(* its segments, so "/a/b" is <<"", "a", "b">>, "/" is <<"", "">>, "a/" is   *)
(* <<"a", "">> and the empty path is <<"">>.                                *)
(*                                                                         *)
(* A set of flags (bitflags) is modelled by the set of the names of its    *)
(* bits.                                                                   *)
(*                                                                         *)
(* Threads: thread Main runs its script alone, then lets the workers run   *)
(* concurrently (thread::spawn ... join, as the tests do) and continues    *)
(* when all of them have finished.  Every access to shared memory (a map   *)
(* operation, an atomic load, store or read-modify-write, a lock, a copy    *)
(* of bytes) is one step.                                                  *)
(***************************************************************************)
EXTENDS Integers, Sequences, FiniteSets, TLC

\* ------------------------------------------------------------------ bounds
\* utils::FILE_MAX_SIZE, scaled down: the length of every file buffer.
FILE_MAX_SIZE == 4
\* utils::NUMBER_OF_MAXIMUM_FILES, scaled down: the buffers of the pool.
NUMBER_OF_MAXIMUM_FILES == 2
\* The number of worker threads of a scenario.
NWorkers == 2
\* The largest byte value written by a scenario (bytes are 0..MaxByte).
MaxByte == 2

Main == 0
Workers == 1..NWorkers
Threads == {Main} \cup Workers

\* The nodes (Arc<MemFSEntry>) that can ever be allocated; 0 is the root.
MaxNodes == NUMBER_OF_MAXIMUM_FILES + NWorkers + 3
Nodes == 0..(MaxNodes - 1)
Root == 0
\* "no node" (None, or a field that is not in use)
NoNode == -1
\* the value MemFSEntry::ResolvedAsRoot (a fresh entry, part of no tree)
ResolvedAsRoot == -2

VARIABLES
    feature,                \* the build: "coarse", "fine" or "lockfree"
    kind,                   \* kind[n]: "none" (not allocated), "dir", "file"
    children,               \* children[n]: the map name -> node of directory n
    parent,                 \* parent[n]: the Weak parent of directory n
    size,                   \* MemFSFileNode::size of file node n
    data,                   \* MemFSFileNode::data of file node n
    cwd_node,               \* MemFS::cwd_node
    file_descriptors,       \* MemFS::file_descriptors: the fds in the table
    desc,                   \* desc[fd]: the MemFSFileDescriptor made for fd
    file_descriptor_count,  \* MemFS::file_descriptor_count
    file_memory,            \* MemFS::file_memory: the buffers left in the pool
    locks,                  \* the DashMap entries held: <<thread, dir, name>>
    script,                 \* script[t]: the calls thread t makes, in order
    ip,                     \* ip[t]: the index of thread t's current call
    pc,                     \* pc[t]: where thread t is inside its current call
    loc,                    \* loc[t]: the local variables of the current call
    ret,                    \* ret[t]: the results of thread t's calls so far
    snap                    \* snap[t]: what held when thread t's current (or
                            \* last) call made its first step

treeVars == <<kind, children, parent>>
fileVars == <<size, data>>
fdVars == <<file_descriptors, desc, file_descriptor_count>>
thrVars == <<ip, pc, loc, ret, snap>>
vars == <<feature, kind, children, parent, size, data, cwd_node,
          file_descriptors, desc, file_descriptor_count, file_memory, locks,
          script, ip, pc, loc, ret, snap>>

\* ------------------------------------------------------------------ flags
O_RDONLY == "O_RDONLY"
O_WRONLY == "O_WRONLY"
O_RDWR == "O_RDWR"
O_CREAT == "O_CREAT"
O_EXCL == "O_EXCL"
O_APPEND == "O_APPEND"
AccessModes == {O_RDONLY, O_WRONLY, O_RDWR}

\* At least one access mode in the place of exactly one.
check_mode_presence(flag) == Cardinality(flag \cap AccessModes) >= 1

\* OpenFlag::check_mode_exclusiveness
check_mode_exclusiveness(flag) == Cardinality(flag \cap AccessModes) = 1

\* ------------------------------------------------------------------ results
Ok(v) == [err |-> "", val |-> v, buf |-> <<>>]
OkBuf(v, b) == [err |-> "", val |-> v, buf |-> b]
Err(e) == [err |-> e, val |-> -1, buf |-> <<>>]
\* An error returned by read, with the caller's buffer as the call left it.
ErrBuf(e, b) == [err |-> e, val |-> -1, buf |-> b]
IsOk(r) == r.err = ""

\* ------------------------------------------------------------------ paths
\* path.is_empty()
path_is_empty(path) == path = <<"">>

\* path == "/"
path_is_root(path) == path = <<"", "">>

\* MemFS::is_absolute_path
is_absolute_path(path) == Len(path) >= 2 /\ path[1] = ""

RECURSIVE trim_end_matches(_)
\* str::trim_end_matches('/'), on the segments
trim_end_matches(path) ==
    IF Len(path) > 1 /\ path[Len(path)] = ""
    THEN trim_end_matches(SubSeq(path, 1, Len(path) - 1))
    ELSE path

\* MemFS::get_last_component_of_path
get_last_component_of_path(path) ==
    LET t == trim_end_matches(path) IN t[Len(t)]

\* MemFS::path_str_to_iter
path_str_to_iter(path) == SelectSeq(path, LAMBDA x : x # "" /\ x # ".")

\* MemFS::path_str_to_iter_and_without_last_component
path_str_to_iter_and_without_last_component(path) ==
    LET v == path_str_to_iter(path) IN
    IF v = <<>> THEN <<>> ELSE SubSeq(v, 1, Len(v) - 1)

\* ------------------------------------------------------------------ tree
Has(n, name) == name \in DOMAIN children[n]

RECURSIVE Attached(_, _)
\* Node n is held by the tree: it is the root, or its parent is held by the
\* tree and has n among its children (k bounds the depth).
Attached(n, k) ==
    \/ n = Root
    \/ /\ k > 0
       /\ n \in Nodes
       /\ parent[n] \in Nodes
       /\ \E name \in DOMAIN children[parent[n]] : children[parent[n]][name] = n
       /\ Attached(parent[n], k - 1)

\* Weak::upgrade: the node if some Arc still holds it (the tree, cwd, or a
\* thread that resolved it), else None.
upgrade(n) ==
    IF \/ Attached(n, MaxNodes)
       \/ n = cwd_node
       \/ \E t \in Threads : loc[t].parent_node = n
    THEN n ELSE NoNode

RECURSIVE search_entry_with_path(_, _)
\* MemFSDirNode::search_entry_with_path, from directory d with the components
\* iter (not empty): the node found, or the error.
search_entry_with_path(d, iter) ==
    LET current_path == iter[1]
        rest == Tail(iter)
    IN
    IF rest # <<>> THEN
        IF Has(d, current_path) THEN
            LET v == children[d][current_path] IN
            IF kind[v] = "dir" THEN search_entry_with_path(v, rest)
            ELSE Err("ENOTDIR")
        ELSE IF current_path = ".." THEN
            IF parent[d] # NoNode THEN
                IF upgrade(parent[d]) # NoNode
                THEN search_entry_with_path(parent[d], rest)
                ELSE Err("ENOENT")
            ELSE search_entry_with_path(d, rest)
        ELSE Err("ENOENT")
    ELSE
        IF Has(d, current_path) THEN Ok(children[d][current_path])
        ELSE IF current_path = ".." THEN
            IF parent[d] # NoNode THEN
                IF upgrade(parent[d]) # NoNode
                THEN Ok(parent[d])
                ELSE Err("ENOENT")
            ELSE Ok(ResolvedAsRoot)
        ELSE Err("ENOENT")

\* The part shared by get_node_of_given_path and
\* get_parent_directory_node_of_given_path: resolve the components iter.
resolve_from(path, iter) ==
    IF iter = <<>> THEN
        IF is_absolute_path(path) THEN Ok(Root) ELSE Ok(cwd_node)
    ELSE
        LET starting_node == IF is_absolute_path(path) THEN Root ELSE cwd_node IN
        IF kind[starting_node] = "dir"
        THEN search_entry_with_path(starting_node, iter)
        ELSE Err("ENOENT")

\* MemFS::get_node_of_given_path
get_node_of_given_path(path) ==
    IF path_is_empty(path) THEN Err("ENOENT")
    ELSE resolve_from(path, path_str_to_iter(path))

\* MemFS::get_parent_directory_node_of_given_path
get_parent_directory_node_of_given_path(path) ==
    IF path_is_empty(path) THEN Err("ENOENT")
    ELSE resolve_from(path, path_str_to_iter_and_without_last_component(path))

\* The kind of a resolved entry: "dir", "file" or "root" (ResolvedAsRoot).
EntryKind(n) == IF n = ResolvedAsRoot THEN "root" ELSE kind[n]

\* The first node that is not allocated yet (Arc::new).
FreshNode == CHOOSE n \in Nodes : kind[n] = "none" /\ \A m \in Nodes : m < n => kind[m] # "none"


\* ------------------------------------------------------------------ threads
\* One call of a script: op is "open", "close", "unlink", "mkdir", "read",
\* "write", "lseek" or "join" (Main waits for the workers).
Call(op, path, flag, fd, buffer, sz, whence) ==
    [op |-> op, path |-> path, flag |-> flag, fd |-> fd, buffer |-> buffer,
     size |-> sz, whence |-> whence]
OpenCall(path, flag) == Call("open", path, flag, -1, <<>>, 0, "")
CloseCall(fd) == Call("close", <<"">>, {}, fd, <<>>, 0, "")
UnlinkCall(path) == Call("unlink", path, {}, -1, <<>>, 0, "")
MkdirCall(path) == Call("mkdir", path, {}, -1, <<>>, 0, "")
RmdirCall(path) == Call("rmdir", path, {}, -1, <<>>, 0, "")
ChdirCall(path) == Call("chdir", path, {}, -1, <<>>, 0, "")
ReadCall(fd, buflen, sz) == Call("read", <<"">>, {}, fd, [i \in 1..buflen |-> 0], sz, "")
WriteCall(fd, buffer, sz) == Call("write", <<"">>, {}, fd, buffer, sz, "")
LseekCall(fd, offset, whence) == Call("lseek", <<"">>, {}, fd, <<>>, offset, whence)
JoinCall == Call("join", <<"">>, {}, -1, <<>>, 0, "")

\* The local variables of a call, before its first step.
L0 == [parent_node |-> NoNode, last_elem |-> "", file_node |-> NoNode,
       creating |-> FALSE, fd |-> -1, current_offset |-> 0, file_size |-> 0,
       reading_length |-> 0, expected_offset |-> 0, copied |-> 0,
       slice |-> <<>>, iter |-> <<>>]

Finished(t) == ip[t] > Len(script[t])
Cur(t) == script[t][ip[t]]

\* Thread t is about to make a call of kind op: Main runs alone; a worker runs
\* between thread::spawn and join, that is while Main waits at its "join".
Ready(t, op) ==
    /\ pc[t] = "idle"
    /\ ~Finished(t)
    /\ Cur(t).op = op
    /\ t # Main => (~Finished(Main) /\ Cur(Main).op = "join")

\* The descriptors that successful opens have returned so far.
ReturnedFds ==
    UNION {{ret[t][i].val : i \in {j \in 1..Len(ret[t]) :
                                     script[t][j].op = "open" /\ IsOk(ret[t][j])}}
           : t \in Threads}

\* The entry a path names: "absent" (or not resolvable), "dir", "file", "root".
PathKind(path) ==
    LET r == get_node_of_given_path(path) IN
    IF IsOk(r) THEN EntryKind(r.val) ELSE "absent"

\* The node a path names (NoNode: none).
PathNode(path) ==
    LET r == get_node_of_given_path(path) IN
    IF IsOk(r) THEN r.val ELSE NoNode

\* The state of the file system: the tree, the files, the descriptor table
\* (the descriptors that are in it), the counter and the pool.
FsState ==
    [children |-> children, kind |-> kind, size |-> size, data |-> data,
     cwd_node |-> cwd_node, file_descriptors |-> file_descriptors,
     desc |-> [fd \in file_descriptors |-> desc[fd]],
     file_descriptor_count |-> file_descriptor_count,
     file_memory |-> file_memory]

\* Main is the only thread that makes calls.
Sequential == \A w \in Workers : script[w] = <<>>

\* What a caller can know when its call starts: the descriptors returned so
\* far, what its path names, and the buffers left in the pool; when Main is
\* the only caller also the state of the file system at the start of each of
\* its calls.
Observe(t) ==
    [fds |-> ReturnedFds, entry |-> PathKind(Cur(t).path),
     node |-> PathNode(Cur(t).path), pool |-> file_memory,
     log |-> IF Sequential THEN Append(snap[t].log, FsState) ELSE <<>>]

\* snap at a step of thread t: taken at the first step of a call.
Snap(t) ==
    snap' = IF pc[t] = "idle" THEN [snap EXCEPT ![t] = Observe(t)] ELSE snap

\* The current call of thread t returns r.
Finish(t, r) ==
    /\ ret' = [ret EXCEPT ![t] = Append(@, r)]
    /\ ip' = [ip EXCEPT ![t] = @ + 1]
    /\ pc' = [pc EXCEPT ![t] = "idle"]
    /\ loc' = [loc EXCEPT ![t] = L0]
    /\ Snap(t)

\* Thread t goes on to step label of its current call with the locals l.
Goto(t, label, l) ==
    /\ pc' = [pc EXCEPT ![t] = label]
    /\ loc' = [loc EXCEPT ![t] = l]
    /\ Snap(t)
    /\ UNCHANGED <<ip, ret>>

\* handle.join() of every worker
Join ==
    /\ Ready(Main, "join")
    /\ \A w \in Workers : Finished(w)
    /\ Finish(Main, Ok(0))
    /\ UNCHANGED <<feature, treeVars, fileVars, cwd_node, fdVars, file_memory,
                   locks, script>>

\* ------------------------------------------------------------------ locks
\* DashMap::entry holds the shard of the key locked as long as the Entry
\* lives; the model locks the key alone (two keys may share a shard or not).
Locked(d, name) == \E t \in Threads : <<t, d, name>> \in locks
Release(t) == {l \in locks : l[1] # t}

\* A thread is inside read, write or lseek with descriptor fd: it holds the
\* descriptor found in the table (a read guard of the table in the coarse
\* build, of the key's shard in the fine build, an epoch pin in the
\* lock-free build).
IoLabels == {"r_size", "r_slice", "r_add", "w_lock", "w_size", "w_copy",
             "w_offset", "s_size", "s_store"}
InIo(t) == pc[t] \in IoLabels
\* The table cannot be written (open's insert, close) while readers hold it.
TableWritable(fd) ==
    CASE feature = "coarse" -> \A t \in Threads : ~InIo(t)
      [] feature = "fine" -> \A t \in Threads : ~(InIo(t) /\ loc[t].fd = fd)
      [] OTHER -> TRUE

\* ------------------------------------------------------------------ pool
\* allocate_file_memory that fails on the last buffer.
allocate_file_memory_early(pool) ==
    IF pool > 1 THEN Ok(pool - 1) ELSE Err("ENOMEM")

\* allocate_file_memory that makes a new buffer when the pool is empty.
allocate_file_memory_grow(pool) ==
    IF pool > 0 THEN Ok(pool - 1) ELSE Ok(0)

\* MemFS::allocate_file_memory: the pool after the pop, or ENOMEM.
allocate_file_memory(pool) ==
    IF pool > 0 THEN Ok(pool - 1) ELSE Err("ENOMEM")

\* allocate_file_descriptor that loads the counter and does not add to it.
allocate_file_descriptor_load(count) == [fd |-> count, count |-> count]

\* MemFS::allocate_file_descriptor: fetch_add(1) returns the old count.
allocate_file_descriptor(count) == [fd |-> count, count |-> count + 1]

\* Mutex::new(()): no thread holds the mutex (else: the thread that does).
Unlocked == -1

\* MemFSFileDescriptor::new
NewDescriptor(flag, entry) ==
    [flag |-> flag \ {O_CREAT}, file_offset |-> 0, entry |-> entry,
     append_mutex |-> Unlocked]

\* Arc::new(MemFSEntry::File(MemFSFileNode::new(space))): node n becomes a
\* file of size 0 whose data is the pool's buffer (all zero).
NewFileNode(n) ==
    /\ kind' = [kind EXCEPT ![n] = "file"]
    /\ size' = [size EXCEPT ![n] = 0]
    /\ data' = [data EXCEPT ![n] = [i \in 1..FILE_MAX_SIZE |-> 0]]

\* HashMap::insert on the children of d: the entry of name is set (an entry
\* that is there is replaced).
map_insert(m, name, n) == (name :> n) @@ m

\* HashMap::remove that leaves the entry in the map.
map_remove_nothing(m, name) == m

\* HashMap::remove on a map
map_remove(m, name) == [x \in (DOMAIN m) \ {name} |-> m[x]]


RECURSIVE LastOpenFrom(_, _)
\* The descriptor returned by the last successful open among the first i
\* calls of thread t (-1: none).
LastOpenFrom(t, i) ==
    IF i = 0 THEN -1
    ELSE IF script[t][i].op = "open" /\ IsOk(ret[t][i]) THEN ret[t][i].val
    ELSE LastOpenFrom(t, i - 1)

\* The fd argument of the current call: the number written in the script, or
\* (a negative number in the script) the descriptor this thread opened last.
FdArg(t) == IF Cur(t).fd >= 0 THEN Cur(t).fd ELSE LastOpenFrom(t, Len(ret[t]))

\* ------------------------------------------------------------------ open
\* open, fine-grained and lock-free builds: the mode check, the resolution of
\* the parent directory, the match of resolve_dir_and_entry / resolve_open_dir.
OpenResolveParent(t) ==
    /\ Ready(t, "open")
    /\ feature \in {"fine", "lockfree"}
    /\ LET c == Cur(t)
           r == get_parent_directory_node_of_given_path(c.path)
           last_elem == get_last_component_of_path(c.path)
       IN
       IF ~check_mode_exclusiveness(c.flag) THEN Finish(t, Err("EINVAL"))
       ELSE IF ~IsOk(r) THEN Finish(t, r)
       ELSE IF EntryKind(r.val) = "file" THEN Finish(t, Err("ENOTDIR"))
       ELSE Goto(t, "o_entry",
                 [L0 EXCEPT !.parent_node =
                                IF r.val = ResolvedAsRoot THEN Root ELSE r.val,
                            !.last_elem = last_elem])
    /\ UNCHANGED <<feature, treeVars, fileVars, cwd_node, fdVars, file_memory,
                   locks, script>>

\* open, fine-grained build: children.entry(last_elem) and the choice of the
\* branch; lock-free build: parent_pin.get(last_elem) and the choice.
OpenEntry(t) ==
    /\ pc[t] = "o_entry"
    /\ LET c == Cur(t)
           d == loc[t].parent_node
           name == loc[t].last_elem
           held == IF feature = "fine" THEN locks \cup {<<t, d, name>>} ELSE locks
       IN
       /\ feature = "fine" => ~Locked(d, name)
       /\ IF Has(d, name) THEN
              IF {O_CREAT, O_EXCL} \subseteq c.flag
              THEN Finish(t, Err("EEXIST")) /\ UNCHANGED locks
              ELSE IF kind[children[d][name]] = "file"
              THEN /\ Goto(t, "o_fd", [loc[t] EXCEPT !.file_node = children[d][name]])
                   /\ locks' = held
              ELSE Finish(t, Err("EISDIR")) /\ UNCHANGED locks
          ELSE
              IF O_CREAT \in c.flag
              THEN Goto(t, "o_alloc", loc[t]) /\ locks' = held
              ELSE Finish(t, Err("ENOENT")) /\ UNCHANGED locks
    /\ UNCHANGED <<feature, treeVars, fileVars, cwd_node, fdVars, file_memory,
                   script>>

\* open, fine-grained and lock-free builds, no entry and O_CREAT:
\* allocate_file_memory and the new file node.
OpenAlloc(t) ==
    /\ pc[t] = "o_alloc"
    /\ LET m == allocate_file_memory(file_memory)
           n == FreshNode
       IN
       IF IsOk(m) THEN
           /\ file_memory' = m.val
           /\ NewFileNode(n)
           /\ Goto(t, "o_fd", [loc[t] EXCEPT !.file_node = n, !.creating = TRUE])
           /\ UNCHANGED locks
       ELSE
           /\ Finish(t, m)
           /\ locks' = Release(t)
           /\ UNCHANGED <<file_memory, kind, size, data>>
    /\ UNCHANGED <<feature, children, parent, cwd_node, fdVars, script>>

\* open, every build: allocate_file_descriptor.
OpenFd(t) ==
    /\ pc[t] = "o_fd"
    /\ LET a == allocate_file_descriptor(file_descriptor_count) IN
       /\ file_descriptor_count' = a.count
       /\ Goto(t, IF loc[t].creating THEN "o_insert" ELSE "o_table",
               [loc[t] EXCEPT !.fd = a.fd])
    /\ UNCHANGED <<feature, treeVars, fileVars, cwd_node, file_descriptors, desc,
                   file_memory, locks, script>>

\* open, fine-grained build: v.insert(file_node) on the vacant entry, which
\* unlocks it; lock-free build: parent_pin.insert(last_elem, file_node).
OpenInsert(t) ==
    /\ pc[t] = "o_insert"
    /\ children' = [children EXCEPT ![loc[t].parent_node] =
                        map_insert(@, loc[t].last_elem, loc[t].file_node)]
    /\ locks' = Release(t)
    /\ Goto(t, "o_table", loc[t])
    /\ UNCHANGED <<feature, kind, parent, fileVars, cwd_node, fdVars,
                   file_memory, script>>

\* open, every build: the insert of the new descriptor into the table.
OpenTable(t) ==
    /\ pc[t] = "o_table"
    /\ TableWritable(loc[t].fd)
    /\ desc' = (loc[t].fd :> NewDescriptor(Cur(t).flag, loc[t].file_node)) @@ desc
    /\ file_descriptors' = file_descriptors \cup {loc[t].fd}
    /\ locks' = Release(t)
    /\ Finish(t, Ok(loc[t].fd))
    /\ UNCHANGED <<feature, treeVars, fileVars, cwd_node, file_descriptor_count,
                   file_memory, script>>

\* open, coarse-grained build: get_node_of_given_path and the match on the
\* entry found (a file goes on to the descriptor, anything else is EISDIR).
CoarseLookup(t) ==
    LET r == get_node_of_given_path(Cur(t).path) IN
    IF ~IsOk(r) THEN Finish(t, r)
    ELSE IF EntryKind(r.val) = "file"
    THEN Goto(t, "o_fd", [L0 EXCEPT !.file_node = r.val])
    ELSE Finish(t, Err("EISDIR"))

\* open, coarse-grained build: the mode check, then with O_CREAT
\* allocate_file_memory (the argument of create), without it the lookup.
OpenCoarseBegin(t) ==
    /\ Ready(t, "open")
    /\ feature = "coarse"
    /\ LET c == Cur(t)
           m == allocate_file_memory(file_memory)
       IN
       IF ~check_mode_exclusiveness(c.flag)
       THEN Finish(t, Err("EINVAL")) /\ UNCHANGED file_memory
       ELSE IF O_CREAT \in c.flag THEN
           IF IsOk(m)
           THEN file_memory' = m.val /\ Goto(t, "oc_parent", L0)
           ELSE Finish(t, m) /\ UNCHANGED file_memory
       ELSE CoarseLookup(t) /\ UNCHANGED file_memory
    /\ UNCHANGED <<feature, treeVars, fileVars, cwd_node, fdVars, locks, script>>

\* create, coarse-grained build: the resolution of the parent directory.
OpenCoarseParent(t) ==
    /\ pc[t] = "oc_parent"
    /\ LET r == get_parent_directory_node_of_given_path(Cur(t).path) IN
       IF ~IsOk(r) THEN Finish(t, r)
       ELSE Goto(t, "oc_create",
                 [L0 EXCEPT !.parent_node = r.val,
                            !.last_elem = get_last_component_of_path(Cur(t).path)])
    /\ UNCHANGED <<feature, treeVars, fileVars, cwd_node, fdVars, file_memory,
                   locks, script>>

\* create, coarse-grained build: under the write lock of the directory, the
\* match on its kind and create_new_file.
OpenCoarseCreate(t) ==
    /\ pc[t] = "oc_create"
    /\ LET d == loc[t].parent_node
           name == loc[t].last_elem
           n == FreshNode
       IN
       IF EntryKind(d) = "file"
       THEN Finish(t, Err("ENOENT")) /\ UNCHANGED <<treeVars, fileVars>>
       ELSE IF EntryKind(d) = "root"
       THEN Finish(t, Err("EISDIR")) /\ UNCHANGED <<treeVars, fileVars>>
       ELSE IF ~Has(d, name) THEN
           /\ NewFileNode(n)
           /\ children' = [children EXCEPT ![d] = map_insert(@, name, n)]
           /\ Goto(t, "oc_lookup", L0)
           /\ UNCHANGED parent
       ELSE IF O_EXCL \in Cur(t).flag
       THEN Finish(t, Err("EEXIST")) /\ UNCHANGED <<treeVars, fileVars>>
       ELSE Goto(t, "oc_lookup", L0) /\ UNCHANGED <<treeVars, fileVars>>
    /\ UNCHANGED <<feature, cwd_node, fdVars, file_memory, locks, script>>

\* open, coarse-grained build, after create: the lookup of the path.
OpenCoarseLookup(t) ==
    /\ pc[t] = "oc_lookup"
    /\ CoarseLookup(t)
    /\ UNCHANGED <<feature, treeVars, fileVars, cwd_node, fdVars, file_memory,
                   locks, script>>


\* ------------------------------------------------------------------ unlink
\* A thread of the coarse-grained build holds the read lock of entry n: it
\* is inside read, write or lseek on a descriptor of n, or inside open
\* between item_node.read() and the return.
EntryReadLocked(n) ==
    \E t \in Threads :
        \/ InIo(t) /\ loc[t].file_node = n
        \/ pc[t] = "o_table" /\ loc[t].file_node = n

\* unlink: the resolution of the parent directory and the match on its kind.
UnlinkResolve(t) ==
    /\ Ready(t, "unlink")
    /\ LET r == get_parent_directory_node_of_given_path(Cur(t).path) IN
       IF ~IsOk(r) THEN Finish(t, r)
       ELSE IF EntryKind(r.val) = "file" THEN Finish(t, Err("ENOENT"))
       ELSE Goto(t, "u_remove",
                 [L0 EXCEPT !.parent_node =
                                IF r.val = ResolvedAsRoot THEN Root ELSE r.val,
                            !.last_elem = get_last_component_of_path(Cur(t).path)])
    /\ UNCHANGED <<feature, treeVars, fileVars, cwd_node, fdVars, file_memory,
                   locks, script>>

\* remove_file without the check that the entry exists.
remove_file_unchecked(d, name) ==
    IF Has(d, name) /\ kind[children[d][name]] # "file" THEN Err("EISDIR")
    ELSE Ok(0)

\* MemFSDirNode::remove_file: the map without name when name is a file, or
\* the error.
remove_file(d, name) ==
    IF ~Has(d, name) THEN Err("ENOENT")
    ELSE IF kind[children[d][name]] # "file" THEN Err("EISDIR")
    ELSE Ok(0)

\* unlink: remove_file on the directory (one locked section, one entry
\* operation or one remove_if, by the build).
UnlinkRemove(t) ==
    /\ pc[t] = "u_remove"
    /\ LET d == loc[t].parent_node
           name == loc[t].last_elem
           r == remove_file(d, name)
       IN
       /\ feature = "fine" => ~Locked(d, name)
       /\ (feature = "coarse" /\ Has(d, name)) => ~EntryReadLocked(children[d][name])
       /\ children' = IF IsOk(r) THEN [children EXCEPT ![d] = map_remove(@, name)]
                      ELSE children
       /\ Finish(t, r)
    /\ UNCHANGED <<feature, kind, parent, fileVars, cwd_node, fdVars, file_memory,
                   locks, script>>

\* ------------------------------------------------------------------ mkdir
\* mkdir: the checks of the path, the resolution of the parent directory and
\* the match on its kind.
MkdirResolve(t) ==
    /\ Ready(t, "mkdir")
    /\ LET path == Cur(t).path
           r == get_parent_directory_node_of_given_path(path)
           last_elem == get_last_component_of_path(path)
       IN
       IF path_is_root(path) THEN Finish(t, Err("EEXIST"))
       ELSE IF ~IsOk(r) THEN Finish(t, r)
       ELSE IF last_elem \in {".", ".."} THEN Finish(t, Err("EEXIST"))
       ELSE IF EntryKind(r.val) = "file" THEN Finish(t, Err("ENOENT"))
       ELSE IF EntryKind(r.val) = "root" THEN Finish(t, Err("EEXIST"))
       ELSE Goto(t, "m_create",
                 [L0 EXCEPT !.parent_node = r.val, !.last_elem = last_elem])
    /\ UNCHANGED <<feature, treeVars, fileVars, cwd_node, fdVars, file_memory,
                   locks, script>>

\* MemFSDirNode::create_new_directory: insert if absent.
MkdirCreate(t) ==
    /\ pc[t] = "m_create"
    /\ LET d == loc[t].parent_node
           name == loc[t].last_elem
           n == FreshNode
       IN
       /\ feature = "fine" => ~Locked(d, name)
       /\ IF Has(d, name)
          THEN Finish(t, Err("EEXIST")) /\ UNCHANGED treeVars
          ELSE /\ kind' = [kind EXCEPT ![n] = "dir"]
               /\ parent' = [parent EXCEPT ![n] = d]
               /\ children' = [children EXCEPT ![d] = map_insert(@, name, n),
                                               ![n] = <<>>]
               /\ Finish(t, Ok(0))
    /\ UNCHANGED <<feature, fileVars, cwd_node, fdVars, file_memory, locks, script>>

\* ------------------------------------------------------------------ rmdir
\* rmdir: the checks of the path, the resolution of the parent directory and
\* the match on its kind.
RmdirResolve(t) ==
    /\ Ready(t, "rmdir")
    /\ LET path == Cur(t).path
           r == get_parent_directory_node_of_given_path(path)
           last_elem == get_last_component_of_path(path)
       IN
       IF path_is_root(path) THEN Finish(t, Err("EBUSY"))
       ELSE IF ~IsOk(r) THEN Finish(t, r)
       ELSE IF last_elem = "." THEN Finish(t, Err("EINVAL"))
       ELSE IF last_elem = ".." THEN Finish(t, Err("ENOTEMPTY"))
       ELSE IF EntryKind(r.val) = "file" THEN Finish(t, Err("ENOENT"))
       ELSE IF EntryKind(r.val) = "root" THEN Finish(t, Err("EBUSY"))
       ELSE Goto(t, "d_remove",
                 [L0 EXCEPT !.parent_node = r.val, !.last_elem = last_elem])
    /\ UNCHANGED <<feature, treeVars, fileVars, cwd_node, fdVars, file_memory,
                   locks, script>>

\* remove_directory without the check that the directory is empty.
remove_directory_unchecked(d, name) ==
    IF ~Has(d, name) THEN Err("ENOENT")
    ELSE IF kind[children[d][name]] # "dir" THEN Err("ENOTDIR")
    ELSE Ok(0)

\* MemFSDirNode::remove_directory: Ok when name is an empty directory, or
\* the error.
remove_directory(d, name) ==
    IF ~Has(d, name) THEN Err("ENOENT")
    ELSE IF kind[children[d][name]] # "dir" THEN Err("ENOTDIR")
    ELSE IF children[children[d][name]] # <<>> THEN Err("ENOTEMPTY")
    ELSE Ok(0)

\* rmdir: remove_directory on the directory (one locked section, one entry
\* operation or one remove_if, by the build).
RmdirRemove(t) ==
    /\ pc[t] = "d_remove"
    /\ LET d == loc[t].parent_node
           name == loc[t].last_elem
           r == remove_directory(d, name)
       IN
       /\ feature = "fine" => ~Locked(d, name)
       /\ children' = IF IsOk(r) THEN [children EXCEPT ![d] = map_remove(@, name)]
                      ELSE children
       /\ Finish(t, r)
    /\ UNCHANGED <<feature, kind, parent, fileVars, cwd_node, fdVars, file_memory,
                   locks, script>>

\* ------------------------------------------------------------------ chdir
\* chdir with every entry taken for a directory.
chdir_target_any(path) ==
    IF path_is_empty(path) THEN Err("ENOENT")
    ELSE IF path_is_root(path) THEN Ok(Root)
    ELSE LET r == get_node_of_given_path(path) IN
         IF ~IsOk(r) THEN r
         ELSE IF EntryKind(r.val) = "root" THEN Ok(Root)
         ELSE Ok(r.val)

\* MemFS::chdir: the directory that becomes cwd_node, or the error.
chdir_target(path) ==
    IF path_is_empty(path) THEN Err("ENOENT")
    ELSE IF path_is_root(path) THEN Ok(Root)
    ELSE LET r == get_node_of_given_path(path) IN
         IF ~IsOk(r) THEN r
         ELSE IF EntryKind(r.val) = "dir" THEN Ok(r.val)
         ELSE IF EntryKind(r.val) = "root" THEN Ok(Root)
         ELSE Err("ENOTDIR")

\* MemFS::chdir (it takes &mut self: no other call runs meanwhile)
Chdir(t) ==
    /\ Ready(t, "chdir")
    /\ LET r == chdir_target(Cur(t).path) IN
       /\ cwd_node' = IF IsOk(r) THEN r.val ELSE cwd_node
       /\ Finish(t, IF IsOk(r) THEN Ok(0) ELSE r)
    /\ UNCHANGED <<feature, treeVars, fileVars, fdVars, file_memory, locks, script>>

\* ------------------------------------------------------------------ close
\* clear in the place of remove.
table_clear(table, fd) == {}

\* The descriptor table after remove(&fd).
table_remove(table, fd) == table \ {fd}

\* MemFS::close
Close(t) ==
    /\ Ready(t, "close")
    /\ LET fd == FdArg(t) IN
       /\ TableWritable(fd)
       /\ IF fd \in file_descriptors
          THEN file_descriptors' = table_remove(file_descriptors, fd) /\ Finish(t, Ok(0))
          ELSE UNCHANGED file_descriptors /\ Finish(t, Err("EBADF"))
    /\ UNCHANGED <<feature, treeVars, fileVars, cwd_node, desc,
                   file_descriptor_count, file_memory, locks, script>>

\* ------------------------------------------------------------------ read
Min(a, b) == IF a < b THEN a ELSE b
Max(a, b) == IF a > b THEN a ELSE b

\* usize::saturating_add.  Every sum of the code is next compared with, or
\* cut to, a file size (at most FILE_MAX_SIZE), so cutting the sum at
\* usize::MAX changes no result and the sum is the integer sum.
saturating_add(a, b) == a + b

\* usize::saturating_sub
saturating_sub(a, b) == IF a > b THEN a - b ELSE 0

\* The length up to the end of the file, whatever the size asked for.
reading_length_to_end(current_offset, sz, file_size) ==
    saturating_sub(file_size, current_offset)

\* read_file: reading_length
reading_length(current_offset, sz, file_size) ==
    saturating_sub(Min(saturating_add(current_offset, sz), file_size),
                   current_offset)

\* read: the lookup of fd in the table, the check of the flag, and the load
\* of the descriptor's offset.
ReadBegin(t) ==
    /\ Ready(t, "read")
    /\ LET fd == FdArg(t) IN
       IF fd \notin file_descriptors THEN Finish(t, Err("EBADF"))
       ELSE IF O_WRONLY \in desc[fd].flag THEN Finish(t, Err("EBADF"))
       ELSE Goto(t, "r_size",
                 [L0 EXCEPT !.fd = fd, !.file_node = desc[fd].entry,
                            !.current_offset = desc[fd].file_offset])
    /\ UNCHANGED <<feature, treeVars, fileVars, cwd_node, fdVars, file_memory,
                   locks, script>>

\* read_file: the load of the file's size, reading_length and the bounds
\* check of content[current_offset..current_offset + reading_length], which
\* panics when current_offset is beyond the buffer.
ReadSize(t) ==
    /\ pc[t] = "r_size"
    /\ LET len == reading_length(loc[t].current_offset, Cur(t).size,
                                 size[loc[t].file_node])
       IN
       IF loc[t].current_offset > FILE_MAX_SIZE THEN Finish(t, Err("panic"))
       ELSE IF len = 0 THEN Goto(t, "r_add", [loc[t] EXCEPT !.reading_length = 0])
       ELSE Goto(t, "r_slice", [loc[t] EXCEPT !.reading_length = len])
    /\ UNCHANGED <<feature, treeVars, fileVars, cwd_node, fdVars, file_memory,
                   locks, script>>

\* read_file without the check of the caller's buffer.
buffer_long_enough(buffer, len) == FALSE

\* read_file: buffer.len() < reading_length
buffer_too_short(buffer, len) == Len(buffer) < len

\* read_file: to_vec() copies the next byte of the slice; after the last
\* one, the check of the caller's buffer.
ReadSlice(t) ==
    /\ pc[t] = "r_slice"
    /\ LET l == loc[t]
           got == Append(l.slice, data[l.file_node][l.current_offset + l.copied + 1])
       IN
       IF l.copied + 1 < l.reading_length
       THEN Goto(t, "r_slice", [l EXCEPT !.slice = got, !.copied = @ + 1])
       ELSE IF buffer_too_short(Cur(t).buffer, l.reading_length)
       THEN Finish(t, ErrBuf("EFAULT", Cur(t).buffer))
       ELSE Goto(t, "r_add", [l EXCEPT !.slice = got, !.copied = @ + 1])
    /\ UNCHANGED <<feature, treeVars, fileVars, cwd_node, fdVars, file_memory,
                   locks, script>>

\* The caller's buffer after buffer[0..reading_length].copy_from_slice(slice).
copy_to_buffer(buffer, slice) ==
    [i \in 1..Len(buffer) |-> IF i <= Len(slice) THEN slice[i] ELSE buffer[i]]

\* read_file: file_offset.fetch_add(reading_length) and the return.
ReadAdd(t) ==
    /\ pc[t] = "r_add"
    /\ desc' = [desc EXCEPT ![loc[t].fd].file_offset = @ + loc[t].reading_length]
    /\ Finish(t, OkBuf(Len(loc[t].slice), copy_to_buffer(Cur(t).buffer, loc[t].slice)))
    /\ UNCHANGED <<feature, treeVars, fileVars, cwd_node, file_descriptors,
                   file_descriptor_count, file_memory, locks, script>>

\* ------------------------------------------------------------------ write
\* The whole buffer written, whatever the size asked for.
writing_content_size_of_buffer(sz, buffer) == Len(buffer)

\* write_file: writing_content_size
writing_content_size(sz, buffer) == Min(sz, Len(buffer))

\* write_file: expected_offset
expected_offset(current_offset, w) == saturating_add(current_offset, w)

\* write_file without the check against FILE_MAX_SIZE.
file_too_large_unchecked(expected) == FALSE

\* write_file: the check against FILE_MAX_SIZE
file_too_large(expected) == expected > FILE_MAX_SIZE

\* fetch_add in the place of fetch_max.
fetch_max_as_add(old, v) == old + v

\* store in the place of fetch_max.
fetch_max_as_store(old, v) == v

\* AtomicUsize::fetch_max: the value stored
fetch_max(old, v) == Max(old, v)

\* Mutex::lock that never waits.
mutex_ignored(m) == TRUE

\* Mutex::lock can take the mutex m
mutex_free(m) == m = Unlocked

\* write: the lookup of fd in the table and the check of the flag; without
\* O_APPEND also the load of the descriptor's offset and the size check.
WriteBegin(t) ==
    /\ Ready(t, "write")
    /\ LET fd == FdArg(t)
           w == writing_content_size(Cur(t).size, Cur(t).buffer)
       IN
       IF fd \notin file_descriptors THEN Finish(t, Err("EBADF"))
       ELSE IF O_RDONLY \in desc[fd].flag THEN Finish(t, Err("EBADF"))
       ELSE IF O_APPEND \in desc[fd].flag
       THEN Goto(t, "w_lock", [L0 EXCEPT !.fd = fd, !.file_node = desc[fd].entry])
       ELSE IF file_too_large(expected_offset(desc[fd].file_offset, w))
       THEN Finish(t, Err("EFBIG"))
       ELSE Goto(t, "w_size",
                 [L0 EXCEPT !.fd = fd, !.file_node = desc[fd].entry,
                            !.current_offset = desc[fd].file_offset,
                            !.expected_offset =
                                expected_offset(desc[fd].file_offset, w)])
    /\ UNCHANGED <<feature, treeVars, fileVars, cwd_node, fdVars, file_memory,
                   locks, script>>

\* current_offset of a write with O_APPEND taken from the descriptor, as
\* a write without O_APPEND takes it.
append_current_offset_of_descriptor(file_offset, file_size) == file_offset

\* write_file with O_APPEND: current_offset is file.size.load(), not the
\* descriptor's file_offset.
append_current_offset(file_offset, file_size) == file_size

\* write_file with O_APPEND: append_mutex.lock(), the load of the file's
\* size and the size check (the guard is dropped on the return).
WriteLock(t) ==
    /\ pc[t] = "w_lock"
    /\ LET fd == loc[t].fd
           w == writing_content_size(Cur(t).size, Cur(t).buffer)
           current == append_current_offset(desc[fd].file_offset,
                                            size[loc[t].file_node])
       IN
       /\ mutex_free(desc[fd].append_mutex)
       /\ IF file_too_large(expected_offset(current, w))
          THEN Finish(t, Err("EFBIG")) /\ UNCHANGED desc
          ELSE /\ desc' = [desc EXCEPT ![fd].append_mutex = t]
               /\ Goto(t, "w_size",
                       [loc[t] EXCEPT !.current_offset = current,
                                      !.expected_offset = expected_offset(current, w)])
    /\ UNCHANGED <<feature, treeVars, fileVars, cwd_node, file_descriptors,
                   file_descriptor_count, file_memory, locks, script>>

\* write_file: with O_APPEND size.store(expected_offset), without it
\* size.fetch_max(expected_offset).
WriteSize(t) ==
    /\ pc[t] = "w_size"
    /\ LET l == loc[t] IN
       /\ size' = [size EXCEPT ![l.file_node] =
                       IF O_APPEND \in desc[l.fd].flag THEN l.expected_offset
                       ELSE fetch_max(@, l.expected_offset)]
       /\ Goto(t, IF l.expected_offset > l.current_offset THEN "w_copy" ELSE "w_offset", l)
    /\ UNCHANGED <<feature, treeVars, data, cwd_node, fdVars, file_memory,
                   locks, script>>

\* write_file: copy_from_slice copies the next byte into the file.
WriteCopy(t) ==
    /\ pc[t] = "w_copy"
    /\ LET l == loc[t] IN
       /\ data' = [data EXCEPT ![l.file_node][l.current_offset + l.copied + 1] =
                       Cur(t).buffer[l.copied + 1]]
       /\ Goto(t, IF l.current_offset + l.copied + 1 < l.expected_offset
                  THEN "w_copy" ELSE "w_offset",
               [l EXCEPT !.copied = @ + 1])
    /\ UNCHANGED <<feature, treeVars, size, cwd_node, fdVars, file_memory,
                   locks, script>>

\* write_file: file_offset.store(expected_offset), the return, and the drop
\* of the mutex guard.
WriteOffset(t) ==
    /\ pc[t] = "w_offset"
    /\ LET l == loc[t] IN
       /\ desc' = [desc EXCEPT ![l.fd].file_offset = l.expected_offset,
                               ![l.fd].append_mutex =
                                   IF @ = t THEN Unlocked ELSE @]
       /\ Finish(t, Ok(l.expected_offset - l.current_offset))
    /\ UNCHANGED <<feature, treeVars, fileVars, cwd_node, file_descriptors,
                   file_descriptor_count, file_memory, locks, script>>

\* ------------------------------------------------------------------ lseek
\* final_offset with every whence taken as SEEK_SET.
final_offset_from_start(whence, current_offset, maximum_offset, seek_position) ==
    Min(maximum_offset, seek_position)

\* seek_file: final_offset
final_offset(whence, current_offset, maximum_offset, seek_position) ==
    LET additional_offset ==
            CASE whence = "SEEK_CUR" -> current_offset
              [] whence = "SEEK_END" -> maximum_offset
              [] OTHER -> 0
    IN Min(maximum_offset, saturating_add(additional_offset, seek_position))

\* lseek: the lookup of fd in the table and the load of the descriptor's offset.
LseekBegin(t) ==
    /\ Ready(t, "lseek")
    /\ LET fd == FdArg(t) IN
       IF fd \notin file_descriptors THEN Finish(t, Err("EBADF"))
       ELSE Goto(t, "s_size",
                 [L0 EXCEPT !.fd = fd, !.file_node = desc[fd].entry,
                            !.current_offset = desc[fd].file_offset])
    /\ UNCHANGED <<feature, treeVars, fileVars, cwd_node, fdVars, file_memory,
                   locks, script>>

\* seek_file: the load of the file's size and final_offset.
LseekSize(t) ==
    /\ pc[t] = "s_size"
    /\ Goto(t, "s_store",
            [loc[t] EXCEPT !.expected_offset =
                final_offset(Cur(t).whence, loc[t].current_offset,
                             size[loc[t].file_node], Cur(t).size)])
    /\ UNCHANGED <<feature, treeVars, fileVars, cwd_node, fdVars, file_memory,
                   locks, script>>

\* seek_file: file_offset.store(final_offset) and the return.
LseekStore(t) ==
    /\ pc[t] = "s_store"
    /\ desc' = [desc EXCEPT ![loc[t].fd].file_offset = loc[t].expected_offset]
    /\ Finish(t, Ok(loc[t].expected_offset))
    /\ UNCHANGED <<feature, treeVars, fileVars, cwd_node, file_descriptors,
                   file_descriptor_count, file_memory, locks, script>>

\* ------------------------------------------------------------------ init
Features == {"coarse", "fine", "lockfree"}

\* MemFS::new, and every thread before its first call.
InitFs ==
    /\ feature \in Features
    /\ kind = [n \in Nodes |-> IF n = Root THEN "dir" ELSE "none"]
    /\ children = [n \in Nodes |-> <<>>]
    /\ parent = [n \in Nodes |-> NoNode]
    /\ size = [n \in Nodes |-> 0]
    /\ data = [n \in Nodes |-> <<>>]
    /\ cwd_node = Root
    /\ file_descriptors = {}
    /\ desc = <<>>
    /\ file_descriptor_count = 0
    /\ file_memory = NUMBER_OF_MAXIMUM_FILES
    /\ locks = {}
    /\ ip = [t \in Threads |-> 1]
    /\ pc = [t \in Threads |-> "idle"]
    /\ loc = [t \in Threads |-> L0]
    /\ ret = [t \in Threads |-> <<>>]
    /\ snap = [t \in Threads |->
                [fds |-> {}, entry |-> "absent", node |-> NoNode, pool |-> 0,
                 log |-> <<>>]]

\* The steps of open, in every build.
OpenSteps(t) ==
    \/ OpenResolveParent(t)
    \/ OpenEntry(t)
    \/ OpenAlloc(t)
    \/ OpenFd(t)
    \/ OpenInsert(t)
    \/ OpenTable(t)
    \/ OpenCoarseBegin(t)
    \/ OpenCoarseParent(t)
    \/ OpenCoarseCreate(t)
    \/ OpenCoarseLookup(t)

\* The steps of read, of write without O_APPEND, and of lseek.
IoSteps(t) ==
    \/ ReadBegin(t) \/ ReadSize(t) \/ ReadSlice(t) \/ ReadAdd(t)
    \/ WriteBegin(t) \/ WriteSize(t) \/ WriteCopy(t) \/ WriteOffset(t)
    \/ LseekBegin(t) \/ LseekSize(t) \/ LseekStore(t)

AllDone == \A t \in Threads : Finished(t)

\* ------------------------------------------------------------------
\* Scenario "excl": Main makes the directory /d, then every worker calls
\* open(p, O_CREAT | O_EXCL | M) on the same vacant path p.
ExclPaths == {<<"", "f">>, <<"", "d", "f">>, <<"f">>}

InitExcl ==
    /\ InitFs
    /\ \E p \in ExclPaths, M \in AccessModes :
          script = [t \in Threads |->
                      IF t = Main THEN <<MkdirCall(<<"", "d">>), JoinCall>>
                      ELSE <<OpenCall(p, {O_CREAT, O_EXCL, M})>>]

NextExcl ==
    \/ Join
    \/ \E t \in Threads : MkdirResolve(t) \/ MkdirCreate(t) \/ OpenSteps(t)

SpecExcl == InitExcl /\ [][NextExcl]_vars

\* The number of calls of the workers that returned Ok, and that returned e.
OkCount == Cardinality({w \in Workers : Len(ret[w]) >= 1 /\ IsOk(ret[w][1])})
ErrCount(e) == Cardinality({w \in Workers : Len(ret[w]) >= 1 /\ ret[w][1].err = e})

\* C1: when N threads concurrently call open(p, O_CREAT|O_EXCL|M) on one
\* vacant path, exactly one call returns a descriptor and the other N-1
\* return EEXIST.
C1_ExactlyOneExclusiveCreate ==
    AllDone => (OkCount = 1 /\ ErrCount("EEXIST") = NWorkers - 1)


\* ------------------------------------------------------------------
\* Scenario "unlink": Main makes /d, creates the file p and closes it, then
\* every worker calls unlink(p).
UnlinkPaths == {<<"", "f">>, <<"", "d", "f">>, <<"d", "f">>}

InitUnlink ==
    /\ InitFs
    /\ \E p \in UnlinkPaths :
          script = [t \in Threads |->
                      IF t = Main
                      THEN <<MkdirCall(<<"", "d">>), OpenCall(p, {O_CREAT, O_RDWR}),
                             CloseCall(-1), JoinCall>>
                      ELSE <<UnlinkCall(p)>>]

NextUnlink ==
    \/ Join
    \/ \E t \in Threads :
          \/ MkdirResolve(t) \/ MkdirCreate(t) \/ OpenSteps(t) \/ Close(t)
          \/ UnlinkResolve(t) \/ UnlinkRemove(t)

SpecUnlink == InitUnlink /\ [][NextUnlink]_vars

\* C2: when N threads concurrently call unlink(p) on one existing file,
\* exactly one call returns Ok and the other N-1 return ENOENT.
C2_ExactlyOneUnlink ==
    AllDone => (OkCount = 1 /\ ErrCount("ENOENT") = NWorkers - 1)

\* C2, its case: all the unlinks have returned and the name is gone.
C2_Witness ==
    /\ AllDone
    /\ OkCount = 1
    /\ PathKind(script[1][1].path) = "absent"

\* ------------------------------------------------------------------
\* Scenario "create": Main makes /d, then the workers call
\* open(p, O_CREAT | M) on pairwise distinct vacant paths, in one directory
\* or in several.
CreatePaths == {<<"", "f">>, <<"g">>, <<"", "d", "f">>, <<"d", "g">>}

InitCreate ==
    /\ InitFs
    /\ \E ps \in [Workers -> CreatePaths], M \in {O_RDONLY} :
          /\ \A v, w \in Workers : v # w => ps[v] # ps[w]
          /\ script = [t \in Threads |->
                         IF t = Main THEN <<MkdirCall(<<"", "d">>), JoinCall>>
                         ELSE <<OpenCall(ps[t], {O_CREAT, M})>>]

SpecCreate == InitCreate /\ [][NextExcl]_vars

\* C8: N concurrent open(O_CREAT | M) on distinct vacant paths (N <= the
\* buffers of the pool) all succeed, and afterwards every name is a file.
C8_DistinctCreatesAllSucceed ==
    AllDone => /\ OkCount = NWorkers
               /\ \A w \in Workers : PathKind(script[w][1].path) = "file"

\* C8, its case: all the opens have returned and the pool is used up.
C8_Witness ==
    /\ AllDone
    /\ file_memory = 0
    /\ \E v, w \in Workers : v # w /\ Len(script[v][1].path) # Len(script[w][1].path)

\* ------------------------------------------------------------------
\* Scenario "append": Main creates /f with O_APPEND, every worker writes k
\* times W bytes of its own value through that one descriptor, then Main
\* reads the file back.
TheFile == <<"", "f">>

InitAppend ==
    /\ InitFs
    /\ \E k \in 1..FILE_MAX_SIZE, W \in 1..FILE_MAX_SIZE :
          /\ NWorkers * k * W <= FILE_MAX_SIZE
          /\ script = [t \in Threads |->
                         IF t = Main
                         THEN <<OpenCall(TheFile, {O_CREAT, O_RDWR, O_APPEND}),
                                JoinCall,
                                LseekCall(0, 0, "SEEK_SET"),
                                ReadCall(0, FILE_MAX_SIZE, FILE_MAX_SIZE),
                                CloseCall(0)>>
                         ELSE [i \in 1..k |-> WriteCall(0, [j \in 1..W |-> t], W)]]

NextAppend ==
    \/ Join
    \/ \E t \in Threads : OpenSteps(t) \/ Close(t) \/ IoSteps(t) \/ WriteLock(t)

SpecAppend == InitAppend /\ [][NextAppend]_vars

\* The writes of one worker (k), the bytes of one write (W), the blocks.
AppendK == Len(script[1])
AppendW == script[1][1].size
AppendBlocks == 0..(NWorkers * AppendK - 1)
\* Block b of /f holds W bytes of worker w.
BlockOf(b, w) ==
    \A j \in 1..AppendW : data[PathNode(TheFile)][b * AppendW + j] = w

\* C3: after N threads have each made k appending writes of W bytes through
\* one shared O_APPEND descriptor, the size of the file is N*k*W and its
\* content is N*k contiguous blocks of W bytes, each block the payload of
\* one thread, k blocks for every thread; every write returned W.
C3_AppendsAreAtomic ==
    AllDone =>
        /\ size[PathNode(TheFile)] = NWorkers * AppendK * AppendW
        /\ \A b \in AppendBlocks : \E w \in Workers : BlockOf(b, w)
        /\ \A w \in Workers :
              /\ Cardinality({b \in AppendBlocks : BlockOf(b, w)}) = AppendK
              /\ \A i \in 1..AppendK : ret[w][i] = Ok(AppendW)
        /\ ret[Main][4].val = NWorkers * AppendK * AppendW

\* C3, its case: all the appends are done, the file is full, and the first
\* block is not the first worker's.
C3_Witness ==
    /\ AllDone
    /\ size[PathNode(TheFile)] = FILE_MAX_SIZE
    /\ ~BlockOf(0, 1)

\* ------------------------------------------------------------------
\* Scenario "io": Main creates /f (descriptor 0), opens it again with
\* O_APPEND (descriptor 1), writes two bytes and seeks back to 0; then every
\* worker runs one of the programs below.
IoPrograms ==
    {<<ReadCall(0, 2, 2)>>,
     <<WriteCall(0, <<2>>, 1)>>,
     <<WriteCall(1, <<3>>, 1)>>,
     <<OpenCall(TheFile, {O_RDWR, O_APPEND}), WriteCall(-1, <<3, 3>>, 2)>>,
     <<LseekCall(0, 1, "SEEK_CUR")>>,
     <<LseekCall(0, 0, "SEEK_END"), ReadCall(0, 1, 1)>>,
     <<CloseCall(0)>>}

InitIo ==
    /\ InitFs
    /\ \E prog \in [Workers -> IoPrograms] :
          script = [t \in Threads |->
                      IF t = Main
                      THEN <<OpenCall(TheFile, {O_CREAT, O_RDWR}),
                             OpenCall(TheFile, {O_WRONLY, O_APPEND}),
                             WriteCall(0, <<1, 1>>, 2),
                             LseekCall(0, 0, "SEEK_SET"),
                             JoinCall>>
                      ELSE prog[t]]

SpecIo == InitIo /\ [][NextAppend]_vars

\* Some call on the file of node n is in flight.
InFlightOn(n) == \E t \in Threads : InIo(t) /\ loc[t].file_node = n

\* C4: for every live descriptor D, offset(D) <= size(target(D)) whenever no
\* operation on D's file is in flight; this covers several threads reading
\* through one descriptor and appends through different descriptors.
C4_OffsetWithinSize ==
    \A fd \in file_descriptors :
        ~InFlightOn(desc[fd].entry) =>
            desc[fd].file_offset <= size[desc[fd].entry]

\* C5: the size of a file is at least 0 and at most FILE_MAX_SIZE, always.
C5_SizeWithinBounds ==
    \A n \in Nodes : kind[n] = "file" => (0 <= size[n] /\ size[n] <= FILE_MAX_SIZE)

\* C5, its case: a write has filled the file to FILE_MAX_SIZE and a write
\* that would grow it further has returned EFBIG.
C5_Witness ==
    /\ PathKind(TheFile) = "file"
    /\ size[PathNode(TheFile)] = FILE_MAX_SIZE
    /\ \E t \in Workers : \E i \in 1..Len(ret[t]) :
          script[t][i].op = "write" /\ ret[t][i].err = "EFBIG"

\* ------------------------------------------------------------------
\* Scenario "fd": Main makes an open that fails, creates /f and closes it;
\* the workers open and close; then Main opens /f once more.
OtherFile == <<"g">>

FdPrograms ==
    {<<OpenCall(TheFile, {O_RDWR}), CloseCall(-1)>>,
     <<OpenCall(OtherFile, {O_CREAT, O_RDWR})>>,
     <<CloseCall(0), OpenCall(TheFile, {O_RDONLY})>>}

FdFirstCalls == {OpenCall(TheFile, {O_RDWR}), OpenCall(TheFile, {O_RDONLY, O_WRONLY})}

InitFd ==
    /\ InitFs
    /\ \E prog \in [Workers -> FdPrograms], first \in FdFirstCalls :
          script = [t \in Threads |->
                      IF t = Main
                      THEN <<first,
                             OpenCall(TheFile, {O_CREAT, O_RDWR}),
                             CloseCall(-1),
                             JoinCall,
                             OpenCall(TheFile, {O_RDONLY})>>
                      ELSE prog[t]]

NextFd ==
    \/ Join
    \/ \E t \in Threads : OpenSteps(t) \/ Close(t)

SpecFd == InitFd /\ [][NextFd]_vars

\* The successful opens that have returned: <<thread, index of the call>>.
Opened ==
    {c \in Threads \X (1..5) :
        /\ c[2] <= Len(ret[c[1]])
        /\ script[c[1]][c[2]].op = "open"
        /\ IsOk(ret[c[1]][c[2]])}
FdOf(c) == ret[c[1]][c[2]].val

\* Thread t has just returned from a successful open.
JustOpened(t) ==
    /\ pc[t] = "idle"
    /\ ip[t] > 1
    /\ script[t][ip[t] - 1].op = "open"
    /\ IsOk(ret[t][ip[t] - 1])

\* C6: descriptor ids are unique over the life of the instance (an id is not
\* given again after close), an open returns an id greater than the id of
\* every open that had returned before it started, and the first successful
\* open returns 0.
C6_DescriptorIdsIncrease ==
    /\ \A c, d \in Opened : c # d => FdOf(c) # FdOf(d)
    /\ \A t \in Threads :
          JustOpened(t) => \A f \in snap[t].fds : f < ret[t][ip[t] - 1].val
    /\ (Len(ret[Main]) >= 2 /\ IsOk(ret[Main][2])) => ret[Main][2].val = 0
    /\ (AllDone /\ Opened # {}) => \E c \in Opened : FdOf(c) = 0

\* C6, its case: Main's first open failed, descriptors were closed, and a
\* later open returned an id above all the ids returned before.
C6_Witness ==
    /\ AllDone
    /\ ~IsOk(ret[Main][1])
    /\ script[Main][1].op = "open"
    /\ Cardinality(Opened) >= 3
    /\ file_descriptors # {FdOf(c) : c \in Opened}
    /\ IsOk(ret[Main][5])
    /\ \A f \in snap[Main].fds : f < ret[Main][5].val

\* ------------------------------------------------------------------
\* Scenario "write": Main creates /f without O_APPEND; every worker writes k
\* times W bytes of its own value through that one descriptor; then Main asks
\* for the offset and reads the file back.
InitWrite ==
    /\ InitFs
    /\ \E k \in 1..2, W \in 1..2 :
          script = [t \in Threads |->
                      IF t = Main
                      THEN <<OpenCall(TheFile, {O_CREAT, O_RDWR}),
                             JoinCall,
                             LseekCall(0, 0, "SEEK_CUR"),
                             LseekCall(0, 0, "SEEK_SET"),
                             ReadCall(0, FILE_MAX_SIZE, FILE_MAX_SIZE),
                             CloseCall(0)>>
                      ELSE [i \in 1..k |-> WriteCall(0, [j \in 1..W |-> t], W)]]

NextWrite ==
    \/ Join
    \/ \E t \in Threads : OpenSteps(t) \/ Close(t) \/ IoSteps(t)

SpecWrite == InitWrite /\ [][NextWrite]_vars

RECURSIVE Attempted(_)
\* The bytes that the writes of the workers in S ask to write, in total.
Attempted(S) ==
    IF S = {} THEN 0
    ELSE LET t == CHOOSE x \in S : TRUE
         IN Len(script[t]) * script[t][1].size + Attempted(S \ {t})

\* C7: after N threads have written concurrently through one shared
\* descriptor without O_APPEND, the size of the file and the offset that
\* lseek(fd, 0, SEEK_CUR) returns are at most the bytes attempted in total.
C7_SharedWritesStayWithinTotal ==
    AllDone =>
        /\ size[PathNode(TheFile)] <= Attempted(Workers)
        /\ IsOk(ret[Main][3])
        /\ ret[Main][3].val <= Attempted(Workers)

\* C7, its case: the writes raced (two of them started at the same offset),
\* so the file ends up shorter than the bytes attempted.
C7_Witness ==
    /\ AllDone
    /\ \A w \in Workers : \A i \in 1..Len(ret[w]) : IsOk(ret[w][i])
    /\ size[PathNode(TheFile)] < Attempted(Workers)
    /\ ret[Main][3].val < size[PathNode(TheFile)]

\* ------------------------------------------------------------------
\* Scenario "exclseq": one thread makes /d, opens a file with O_CREAT as
\* many times as the pool has buffers, then calls
\* open(p, O_CREAT | O_EXCL | M) and afterwards open(p, later flags).
ExclSeqPaths == {<<"", "f">>, <<"", "d">>, <<"", "d", "f">>, <<"h">>}
LaterFlags == {{O_RDONLY}, {O_RDWR, O_CREAT}, {O_WRONLY, O_APPEND}, {O_RDWR}}
\* The index of the exclusive open in Main's script.
ExclAt == NUMBER_OF_MAXIMUM_FILES + 2

InitExclSeq ==
    /\ InitFs
    /\ \E pre \in {TheFile, <<"", "g">>}, p \in ExclSeqPaths, M \in AccessModes,
          later \in LaterFlags :
          script = [t \in Threads |->
                      IF t = Main
                      THEN <<MkdirCall(<<"", "d">>)>>
                           \o [i \in 1..NUMBER_OF_MAXIMUM_FILES |->
                                  OpenCall(pre, {O_CREAT, O_RDWR})]
                           \o <<OpenCall(p, {O_CREAT, O_EXCL, M}), OpenCall(p, later)>>
                      ELSE <<>>]

NextExclSeq ==
    \E t \in Threads : MkdirResolve(t) \/ MkdirCreate(t) \/ OpenSteps(t)

SpecExclSeq == InitExclSeq /\ [][NextExclSeq]_vars

\* Main has returned from its call number i and not started the next one.
JustReturned(i) == ip[Main] = i + 1 /\ pc[Main] = "idle"

\* C9: open(p, O_CREAT|O_EXCL|M) returns EEXIST whenever the name exists, as
\* a file or as a directory; on a vacant name (the pool not empty) it
\* succeeds, and a later open(p, valid flags) returns a descriptor of the
\* file it created.
C9_ExclusiveCreate ==
    /\ (JustReturned(ExclAt) /\ snap[Main].entry \in {"file", "dir"})
          => ret[Main][ExclAt] = Err("EEXIST")
    /\ (JustReturned(ExclAt) /\ snap[Main].entry = "absent" /\ snap[Main].pool > 0)
          => IsOk(ret[Main][ExclAt])
    /\ (JustReturned(ExclAt + 1) /\ IsOk(ret[Main][ExclAt]))
          => /\ IsOk(ret[Main][ExclAt + 1])
             /\ desc[ret[Main][ExclAt + 1].val].entry = desc[ret[Main][ExclAt].val].entry

\* ------------------------------------------------------------------
\* Scenario "seq": one thread creates /f (descriptor 0, O_RDWR), opens it
\* again (descriptor 1, O_WRONLY), then one or two times seeks a descriptor
\* to a position and writes a buffer there; at the end it seeks descriptor 0
\* to 0 and reads.
SeqBuffers ==
    {<<a>> : a \in 1..MaxByte} \cup {<<a, b>> : a \in 1..MaxByte, b \in 1..MaxByte}

\* lseek(fd, pos, SEEK_SET) then write(fd, b, Len(b))
SeekWrite(fd, pos, b) == <<LseekCall(fd, pos, "SEEK_SET"), WriteCall(fd, b, Len(b))>>

SeqSteps ==
    {SeekWrite(fd, pos, b) : fd \in 0..1, pos \in 0..2, b \in SeqBuffers}

\* The second steps: one byte, or no step.
SeqLastSteps ==
    {SeekWrite(fd, pos, <<MaxByte>>) : fd \in 0..1, pos \in 0..2} \cup {<<>>}

InitSeq ==
    /\ InitFs
    /\ \E first \in {<<1>>, <<1, 1>>}, s1 \in SeqSteps, s2 \in SeqLastSteps,
          n \in {1, FILE_MAX_SIZE} :
          script = [t \in Threads |->
                      IF t = Main
                      THEN <<OpenCall(TheFile, {O_CREAT, O_RDWR}),
                             OpenCall(TheFile, {O_WRONLY})>>
                           \o SeekWrite(0, 0, first) \o s1 \o s2
                           \o <<LseekCall(0, 0, "SEEK_SET"),
                                ReadCall(0, FILE_MAX_SIZE, n),
                                CloseCall(0)>>
                      ELSE <<>>]

NextSeq == \E t \in Threads : OpenSteps(t) \/ Close(t) \/ IoSteps(t)

SpecSeq == InitSeq /\ [][NextSeq]_vars

\* The array a after the bytes b are written at position pos.
Overlay(a, pos, b) ==
    [i \in 1..Max(Len(a), pos + Len(b)) |->
        IF i > pos /\ i <= pos + Len(b) THEN b[i - pos] ELSE a[i]]

RECURSIVE Reference(_)
\* The reference array after the first i calls of Main: a write that returned
\* w puts the first w bytes of its buffer at the position that the lseek
\* before it returned.
Reference(i) ==
    IF i = 0 THEN <<>>
    ELSE IF script[Main][i].op = "write" /\ IsOk(ret[Main][i])
    THEN Overlay(Reference(i - 1), ret[Main][i - 1].val,
                 SubSeq(script[Main][i].buffer, 1, ret[Main][i].val))
    ELSE Reference(i - 1)

\* The index of the final read in Main's script.
ReadAt == Len(script[Main]) - 1

\* C10: after a single thread's lseek+write calls on one or two descriptors
\* of a file, lseek(fd, 0, SEEK_SET) and read(fd, buf, n) on the O_RDWR
\* descriptor return min(n, length of the reference array) and the bytes of
\* the reference array updated by the same writes; with one write of n
\* bytes, read returns n and buf[0..n] = b[0..n].
C10_ReadReturnsWhatWasWritten ==
    AllDone =>
        LET ref == Reference(ReadAt)
            r == ret[Main][ReadAt]
            n == script[Main][ReadAt].size
        IN /\ IsOk(r)
           /\ r.val = Min(n, Len(ref))
           /\ \A i \in 1..r.val : r.buf[i] = ref[i]
           /\ \A i \in 1..ReadAt :
                 script[Main][i].op = "write" => ret[Main][i] = Ok(script[Main][i].size)

\* C10, its case: writes went through both descriptors, the last one inside
\* the file, and the read returned the whole file.
C10_Witness ==
    /\ AllDone
    /\ Len(script[Main]) = 11
    /\ script[Main][6].fd # script[Main][8].fd
    /\ script[Main][7].size = 2
    /\ script[Main][8].size = 1
    /\ ret[Main][ReadAt].val = 3
    /\ ret[Main][ReadAt].buf[3] # ret[Main][ReadAt].buf[2]

\* ------------------------------------------------------------------
\* Scenario "undo": one thread makes /d, perhaps creates /g, then calls
\* open(p, O_CREAT | O_RDONLY) on a vacant name, close of the descriptor and
\* unlink(p).
UndoPaths == {<<"", "f">>, <<"f">>, <<"", "d", "f">>, <<"d", "f">>}

InitUndo ==
    /\ InitFs
    /\ \E p \in UndoPaths, pre \in {<<>>, <<OpenCall(<<"", "g">>, {O_CREAT, O_RDWR})>>} :
          script = [t \in Threads |->
                      IF t = Main
                      THEN <<MkdirCall(<<"", "d">>)>> \o pre
                           \o <<OpenCall(p, {O_CREAT, O_RDONLY}), CloseCall(-1),
                                UnlinkCall(p)>>
                      ELSE <<>>]

NextUndo ==
    \E t \in Threads :
        \/ MkdirResolve(t) \/ MkdirCreate(t) \/ OpenSteps(t) \/ Close(t)
        \/ UnlinkResolve(t) \/ UnlinkRemove(t)

SpecUndo == InitUndo /\ [][NextUndo]_vars

\* The state of the file system when Main started its call number i.
Pre(i) == snap[Main].log[i]

\* C11: open(p, O_CREAT|O_RDONLY) on a vacant name, close of the descriptor
\* and unlink(p) all succeed and leave the file system as it was before the
\* open: the same tree, the same descriptor table, the same pool and the
\* same descriptor counter.
C11_OpenCloseUnlinkRestores ==
    AllDone =>
        LET at == Len(script[Main]) - 2 IN
        /\ \A i \in at..(at + 2) : IsOk(ret[Main][i])
        /\ FsState.children = Pre(at).children
        /\ FsState.file_descriptors = Pre(at).file_descriptors
        /\ FsState.desc = Pre(at).desc
        /\ FsState.file_memory = Pre(at).file_memory
        /\ FsState.file_descriptor_count = Pre(at).file_descriptor_count

\* ------------------------------------------------------------------
\* Scenario "dirs": one thread makes /d, perhaps creates the file /d/f, then
\* calls mkdir(p), rmdir(p) and mkdir(p) again.
DirPaths ==
    {<<"", "e">>, <<"e">>, <<"", "d", "e">>, <<"d", "e", "">>, <<"", "d">>,
     <<"", "x", "e">>, <<"", "d", "..", "e">>}

InitDirs ==
    /\ InitFs
    /\ \E p \in DirPaths, pre \in {<<>>, <<OpenCall(<<"", "d", "f">>, {O_CREAT, O_RDWR})>>} :
          script = [t \in Threads |->
                      IF t = Main
                      THEN <<MkdirCall(<<"", "d">>)>> \o pre
                           \o <<MkdirCall(p), RmdirCall(p), MkdirCall(p)>>
                      ELSE <<>>]

NextDirs ==
    \E t \in Threads :
        \/ MkdirResolve(t) \/ MkdirCreate(t) \/ RmdirResolve(t) \/ RmdirRemove(t)
        \/ OpenSteps(t)

SpecDirs == InitDirs /\ [][NextDirs]_vars

\* The names of every directory in the state s of the file system.
NamesIn(s) == [n \in Nodes |-> DOMAIN s.children[n]]

\* C12: after a successful mkdir(p), rmdir(p) succeeds and leaves every
\* directory (the parent among them) with exactly the names it had before
\* the mkdir, and mkdir(p) succeeds again.
C12_MkdirRmdirRestoresNames ==
    AllDone =>
        LET at == Len(script[Main]) - 2 IN
        IsOk(ret[Main][at]) =>
            /\ IsOk(ret[Main][at + 1])
            /\ NamesIn(Pre(at + 2)) = NamesIn(Pre(at))
            /\ NamesIn(Pre(at + 1)) # NamesIn(Pre(at))
            /\ IsOk(ret[Main][at + 2])

\* C12, its case: the three calls succeeded on a path with a trailing slash
\* whose parent holds another name.
C12_Witness ==
    /\ AllDone
    /\ \A i \in 1..Len(ret[Main]) : IsOk(ret[Main][i])
    /\ script[Main][Len(script[Main])].path = <<"d", "e", "">>
    /\ Len(script[Main]) = 5
    /\ DOMAIN children[PathNode(<<"", "d">>)] = {"e", "f"}

\* ------------------------------------------------------------------
\* Scenario "unlinked": one thread makes /d, creates p (descriptor 0),
\* writes two bytes, unlinks p, opens p without O_CREAT, unlinks p again,
\* perhaps creates p anew and writes to the new file, and then seeks, reads,
\* writes and seeks through descriptor 0.
UnlinkedPaths == {<<"", "f">>, <<"f">>, <<"", "d", "f">>}

\* The second creation of p, with a write to the new file.
CreateAnew(p) == <<OpenCall(p, {O_CREAT, O_WRONLY}), WriteCall(-1, <<MaxByte>>, 1)>>

InitUnlinked ==
    /\ InitFs
    /\ \E p \in UnlinkedPaths, M \in AccessModes, b \in 1..MaxByte :
       \E anew \in {<<>>, CreateAnew(p)} :
          script = [t \in Threads |->
                      IF t = Main
                      THEN <<MkdirCall(<<"", "d">>),
                             OpenCall(p, {O_CREAT, O_RDWR}),
                             WriteCall(0, <<1, 2>>, 2),
                             UnlinkCall(p),
                             OpenCall(p, {M}),
                             UnlinkCall(p)>>
                           \o anew
                           \o <<LseekCall(0, 0, "SEEK_SET"),
                                ReadCall(0, FILE_MAX_SIZE, FILE_MAX_SIZE),
                                WriteCall(0, <<b>>, 1),
                                LseekCall(0, 0, "SEEK_END")>>
                      ELSE <<>>]

NextUnlinked ==
    \E t \in Threads :
        \/ MkdirResolve(t) \/ MkdirCreate(t) \/ OpenSteps(t)
        \/ UnlinkResolve(t) \/ UnlinkRemove(t) \/ IoSteps(t)

SpecUnlinked == InitUnlinked /\ [][NextUnlinked]_vars

\* C13: after a successful unlink(p) the name is gone (open(p) without
\* O_CREAT and a second unlink(p) return ENOENT), and the descriptor that
\* was open on the removed file still works: lseek, read and write succeed
\* and act on the old file's content and size, also when p names a new file.
C13_UnlinkKeepsDescriptors ==
    AllDone =>
        LET n == Len(script[Main])
            old == desc[0].entry
        IN
        /\ ret[Main][4] = Ok(0)
        /\ ret[Main][5] = Err("ENOENT")
        /\ ret[Main][6] = Err("ENOENT")
        /\ ret[Main][n - 3] = Ok(0)
        /\ ret[Main][n - 2].err = ""
        /\ ret[Main][n - 2].val = 2
        /\ SubSeq(ret[Main][n - 2].buf, 1, 2) = <<1, 2>>
        /\ ret[Main][n - 1] = Ok(1)
        /\ ret[Main][n] = Ok(3)
        /\ size[old] = 3
        /\ SubSeq(data[old], 1, 3) = <<1, 2, script[Main][n - 1].buffer[1]>>
        /\ PathNode(script[Main][4].path) # old

\* C13, its case: p was created anew after the unlink, and the descriptor of
\* the removed file read and wrote the old file.
C13_Witness ==
    /\ AllDone
    /\ Len(script[Main]) = 12
    /\ PathKind(script[Main][4].path) = "file"
    /\ size[PathNode(script[Main][4].path)] = 1
    /\ size[desc[0].entry] = 3

\* ------------------------------------------------------------------
\* Scenario "closed": one thread opens /f twice (descriptors 0 and 1),
\* writes a byte, closes descriptor x (2 is not open), makes a call on
\* descriptor y, opens /f once more, makes another call on y and closes x
\* again.
OnFd(y) ==
    {ReadCall(y, 1, 1), WriteCall(y, <<MaxByte>>, 1), LseekCall(y, 0, "SEEK_SET"),
     CloseCall(y)}

InitClosed ==
    /\ InitFs
    /\ \E x \in 0..2, y \in 0..1 : \E op1 \in OnFd(y), op2 \in OnFd(y) :
          script = [t \in Threads |->
                      IF t = Main
                      THEN <<OpenCall(TheFile, {O_CREAT, O_RDWR}),
                             OpenCall(TheFile, {O_RDWR}),
                             WriteCall(0, <<1>>, 1),
                             LseekCall(0, 0, "SEEK_SET"),
                             CloseCall(x), op1,
                             OpenCall(TheFile, {O_RDONLY}),
                             op2, CloseCall(x)>>
                      ELSE <<>>]

NextClosed == \E t \in Threads : OpenSteps(t) \/ Close(t) \/ IoSteps(t)

SpecClosed == InitClosed /\ [][NextClosed]_vars

\* Main is between two calls.
Idle == pc[Main] = "idle"
\* The calls Main has returned from.
Returned == 1..Len(ret[Main])
\* The state of the file system when Main returned from its call number i
\* (Main is idle).
Post(i) == IF i < Len(snap[Main].log) THEN Pre(i + 1) ELSE FsState

\* C14: close(fd) succeeds exactly when fd is in the descriptor table, and
\* then removes that descriptor and no other; otherwise it returns EBADF and
\* changes nothing; once closed, fd is never in the table again, and every
\* read, write, lseek or close on a descriptor that is not in the table
\* returns EBADF.
C14_CloseRemovesDescriptor ==
    Idle =>
        \A i \in Returned :
            LET c == script[Main][i]
                live == c.fd \in Pre(i).file_descriptors
            IN
            /\ c.op = "close" =>
                  /\ IsOk(ret[Main][i]) <=> live
                  /\ ~live => (ret[Main][i] = Err("EBADF") /\ Post(i) = Pre(i))
                  /\ live =>
                        /\ Post(i).file_descriptors = Pre(i).file_descriptors \ {c.fd}
                        /\ \A g \in Post(i).file_descriptors :
                              Post(i).desc[g] = Pre(i).desc[g]
                        /\ \A j \in Returned :
                              j > i => c.fd \notin Post(j).file_descriptors
            /\ (c.op \in {"read", "write", "lseek"} /\ ~live) =>
                  (ret[Main][i] = Err("EBADF") /\ Post(i) = Pre(i))

\* C14, its case: descriptor 0 was closed while descriptor 1 stayed, a read
\* on 0 returned EBADF, and after another open a second close of 0 too.
C14_Witness ==
    /\ AllDone
    /\ script[Main][5].fd = 0
    /\ script[Main][6].op = "read"
    /\ script[Main][6].fd = 0
    /\ ret[Main][6] = Err("EBADF")
    /\ ret[Main][9] = Err("EBADF")
    /\ file_descriptors = {1, 2}

\* ------------------------------------------------------------------
\* Scenario "flags": one thread makes the directory /d, creates /f and
\* writes a byte to it, creates NUMBER_OF_MAXIMUM_FILES - 1 more files or
\* none, and then calls open(p, flag) with any set of flags on a file, a
\* directory, a vacant name or a name under a missing directory.
AllFlags == {O_RDONLY, O_WRONLY, O_RDWR, O_CREAT, O_EXCL, O_APPEND}

FlagsPaths ==
    {TheFile, <<"", "d">>, <<"", "n">>, <<"", "d", "n">>, <<"", "x", "n">>}

\* The files that use up the rest of the pool.
Filler == [i \in 1..(NUMBER_OF_MAXIMUM_FILES - 1) |->
              OpenCall(<<"", ToString(i)>>, {O_CREAT, O_RDONLY})]

InitFlags ==
    /\ InitFs
    /\ \E p \in FlagsPaths, flag \in SUBSET AllFlags, fill \in {<<>>, Filler} :
          script = [t \in Threads |->
                      IF t = Main
                      THEN <<MkdirCall(<<"", "d">>),
                             OpenCall(TheFile, {O_CREAT, O_RDWR}),
                             WriteCall(0, <<1>>, 1)>>
                           \o fill \o <<OpenCall(p, flag)>>
                      ELSE <<>>]

NextFlags ==
    \E t \in Threads :
        \/ MkdirResolve(t) \/ MkdirCreate(t) \/ OpenSteps(t)
        \/ WriteBegin(t) \/ WriteSize(t) \/ WriteCopy(t) \/ WriteOffset(t)

SpecFlags == InitFlags /\ [][NextFlags]_vars

\* Main has returned from the last call of its script.
LastReturned == JustReturned(Len(script[Main]))
\* The last call of Main, its result and the state before it.
LastCall == script[Main][Len(script[Main])]
LastRet == ret[Main][Len(script[Main])]
LastPre == Pre(Len(script[Main]))

\* C15: open with a set of flags that does not hold exactly one of O_RDONLY,
\* O_WRONLY, O_RDWR returns EINVAL, whatever the path and the other flags,
\* and leaves the tree, the pool, the descriptor table and the descriptor
\* counter as they were.
C15_OpenModeChecked ==
    (LastReturned /\ Cardinality(LastCall.flag \cap AccessModes) # 1)
        => (LastRet = Err("EINVAL") /\ FsState = LastPre)

\* C15, its case: O_CREAT with two access modes on a vacant name, the pool
\* not empty, returned EINVAL.
C15_Witness ==
    /\ LastReturned
    /\ LastCall.flag = {O_CREAT, O_RDONLY, O_WRONLY}
    /\ LastCall.path = <<"", "n">>
    /\ LastPre.file_memory > 0
    /\ LastRet = Err("EINVAL")
    /\ PathKind(<<"", "n">>) = "absent"

\* C16: open on an existing name with one access mode and without the pair
\* O_CREAT|O_EXCL returns EISDIR when the name is a directory; when it is a
\* file it succeeds, with or without O_CREAT, and returns a new descriptor
\* of that file at offset 0, the content and the size of the file unchanged.
C16_OpenExisting ==
    (/\ LastReturned
     /\ Cardinality(LastCall.flag \cap AccessModes) = 1
     /\ ~({O_CREAT, O_EXCL} \subseteq LastCall.flag))
        => /\ snap[Main].entry = "dir" => LastRet = Err("EISDIR")
           /\ snap[Main].entry = "file" =>
                 /\ IsOk(LastRet)
                 /\ LastRet.val \notin LastPre.file_descriptors
                 /\ LastRet.val \in file_descriptors
                 /\ desc[LastRet.val].file_offset = 0
                 /\ desc[LastRet.val].entry = PathNode(LastCall.path)
                 /\ data = LastPre.data
                 /\ size = LastPre.size

\* ------------------------------------------------------------------
\* Scenario "rw": one thread creates /f (descriptor 0, O_RDWR), opens it
\* again for appending (descriptor 1, O_WRONLY|O_APPEND), writes 1 or
\* FILE_MAX_SIZE - 1 bytes through descriptor 0, seeks descriptor 0 to a
\* position, and then makes one read, write or lseek.
RwContent(n) == [i \in 1..n |-> ((i - 1) % MaxByte) + 1]

RwReads == {ReadCall(0, buflen, n) : buflen \in 0..3, n \in 0..4}

RwWrites ==
    {WriteCall(fd, [i \in 1..len |-> MaxByte], sz) :
        fd \in 0..1, len \in 0..3, sz \in {1, 3}}

RwSeeks ==
    {LseekCall(0, k, whence) :
        k \in 0..FILE_MAX_SIZE, whence \in {"SEEK_SET", "SEEK_CUR", "SEEK_END"}}

InitRw ==
    /\ InitFs
    /\ \E n \in {1, FILE_MAX_SIZE - 1}, k \in 0..(FILE_MAX_SIZE - 1),
          last \in RwReads \cup RwWrites \cup RwSeeks :
          script = [t \in Threads |->
                      IF t = Main
                      THEN <<OpenCall(TheFile, {O_CREAT, O_RDWR}),
                             OpenCall(TheFile, {O_WRONLY, O_APPEND}),
                             WriteCall(0, RwContent(n), n),
                             LseekCall(0, k, "SEEK_SET"),
                             last>>
                      ELSE <<>>]

NextRw == \E t \in Threads : OpenSteps(t) \/ IoSteps(t) \/ WriteLock(t)

SpecRw == InitRw /\ [][NextRw]_vars

\* Before the last call of Main: the descriptor it names, the file of that
\* descriptor, the descriptor's offset O and the file's size S.
LastDesc == LastPre.desc[LastCall.fd]
LastO == LastDesc.file_offset
LastS == LastPre.size[LastDesc.entry]
\* min(n, S - O), 0 when O >= S
LastReadable ==
    IF LastO >= LastS THEN 0
    ELSE IF LastCall.size < LastS - LastO THEN LastCall.size ELSE LastS - LastO

\* C17: a successful read(fd, buf, n) with the descriptor at offset O and
\* the file of size S returns min(n, S - O) bytes, 0 when O >= S; the first
\* bytes of buf are data[O .. O + returned) and the rest of buf is as it was;
\* the offset has advanced by the returned count; the file is as it was.
C17_ReadReturnsSlice ==
    (LastReturned /\ LastCall.op = "read" /\ IsOk(LastRet))
        => /\ LastRet.val = LastReadable
           /\ Len(LastRet.buf) = Len(LastCall.buffer)
           /\ \A i \in 1..Len(LastRet.buf) :
                 LastRet.buf[i] = IF i <= LastRet.val
                                  THEN LastPre.data[LastDesc.entry][LastO + i]
                                  ELSE LastCall.buffer[i]
           /\ desc[LastCall.fd].file_offset = LastO + LastRet.val
           /\ data = LastPre.data
           /\ size = LastPre.size

\* C17, its case: a read of 3 bytes at offset 1 of a file of 3 bytes
\* returned the 2 bytes that were left and moved the offset to 3.
C17_Witness ==
    /\ LastReturned
    /\ LastCall.op = "read"
    /\ LastCall.size = 3
    /\ LastO = 1
    /\ LastS = 3
    /\ LastRet = OkBuf(2, <<2, 1, 0>>)
    /\ desc[0].file_offset = 3

\* The last call of Main names a descriptor of the table that can be read.
LastReadableFd ==
    /\ LastCall.fd \in LastPre.file_descriptors
    /\ O_WRONLY \notin LastDesc.flag

\* C18: read returns EFAULT exactly when the caller's buffer is shorter than
\* min(n, S - O), and then the offset, the buffer and the file (and the rest
\* of the file system) are as they were.
C18_ReadChecksBuffer ==
    (LastReturned /\ LastCall.op = "read" /\ LastReadableFd)
        => /\ (LastRet.err = "EFAULT") <=> (Len(LastCall.buffer) < LastReadable)
           /\ LastRet.err = "EFAULT" =>
                 /\ LastRet.buf = LastCall.buffer
                 /\ FsState = LastPre

\* C18, its case: a read of 2 bytes into a buffer of 1 byte, 2 bytes left in
\* the file, returned EFAULT.
C18_Witness ==
    /\ LastReturned
    /\ LastCall.op = "read"
    /\ LastCall.size = 2
    /\ Len(LastCall.buffer) = 1
    /\ LastO = 1
    /\ LastS = 3
    /\ LastRet.err = "EFAULT"
    /\ desc[0].file_offset = 1

\* C19: lseek(fd, k, whence) stores and returns min(S, base + k), with base
\* 0 for SEEK_SET, the offset O for SEEK_CUR and the size S for SEEK_END;
\* the result never exceeds S, and nothing but the offset of fd changes.
C19_SeekClamped ==
    (LastReturned /\ LastCall.op = "lseek")
        => LET base == CASE LastCall.whence = "SEEK_SET" -> 0
                         [] LastCall.whence = "SEEK_CUR" -> LastO
                         [] LastCall.whence = "SEEK_END" -> LastS
               want == IF base + LastCall.size < LastS
                       THEN base + LastCall.size ELSE LastS
           IN
           /\ LastRet = Ok(want)
           /\ LastRet.val <= LastS
           /\ desc[LastCall.fd].file_offset = want
           /\ [FsState EXCEPT !.desc[LastCall.fd].file_offset = LastO] = LastPre

\* C19, its case: at offset 2 of a file of 3 bytes, lseek(fd, 2, SEEK_CUR)
\* would pass the end, and returned and stored 3.
C19_Witness ==
    /\ LastReturned
    /\ LastCall.op = "lseek"
    /\ LastCall.whence = "SEEK_CUR"
    /\ LastCall.size = 2
    /\ LastO = 2
    /\ LastS = 3
    /\ LastRet = Ok(3)
    /\ desc[0].file_offset = 3

\* The last call of Main names a descriptor of the table that can be written.
LastWritableFd ==
    /\ LastCall.fd \in LastPre.file_descriptors
    /\ O_RDONLY \notin LastDesc.flag

\* Where the last write of Main would end: size + W with O_APPEND, offset + W
\* without, W the smaller of the size argument and the buffer's length.
LastWriteEnd ==
    LET W == IF LastCall.size < Len(LastCall.buffer)
             THEN LastCall.size ELSE Len(LastCall.buffer)
    IN (IF O_APPEND \in LastDesc.flag THEN LastS ELSE LastO) + W

\* C20: a write that would end beyond FILE_MAX_SIZE returns EFBIG and leaves
\* the content, the size and the offset (and the rest of the file system) as
\* they were.
C20_WriteTooLarge ==
    (LastReturned /\ LastCall.op = "write" /\ LastWritableFd
        /\ LastWriteEnd > FILE_MAX_SIZE)
        => (LastRet = Err("EFBIG") /\ FsState = LastPre)

\* C20, its case: an append of 2 bytes to a file of FILE_MAX_SIZE - 1 bytes
\* returned EFBIG.
C20_Witness ==
    /\ LastReturned
    /\ LastCall.op = "write"
    /\ LastCall.fd = 1
    /\ LastS = FILE_MAX_SIZE - 1
    /\ LastWriteEnd = FILE_MAX_SIZE + 1
    /\ LastRet = Err("EFBIG")
    /\ size[PathNode(TheFile)] = FILE_MAX_SIZE - 1

\* ------------------------------------------------------------------
\* Scenario "rmdir": one thread makes /d and the file /g, puts a file, a
\* directory, both or nothing into /d, calls rmdir(p), then removes the
\* children of /d one at a time (with a rmdir(/d) in between when there are
\* two) and calls rmdir(/d).
RmdirPaths ==
    {<<"", "d">>, <<"d">>, <<"", "d", "">>, <<"", "g">>, <<"", "n">>,
     <<"", "d", "e">>, <<"", "d", "f">>, <<"", "x", "e">>}

\* What is put into /d, and the calls that take it out again.
RmdirKids ==
    LET f == <<"", "d", "f">>
        e == <<"", "d", "e">>
        d == <<"", "d">>
    IN
    {[make |-> <<>>, undo |-> <<>>],
     [make |-> <<OpenCall(f, {O_CREAT, O_RDWR})>>, undo |-> <<UnlinkCall(f)>>],
     [make |-> <<MkdirCall(e)>>, undo |-> <<RmdirCall(e)>>],
     [make |-> <<OpenCall(f, {O_CREAT, O_RDWR}), MkdirCall(e)>>,
      undo |-> <<UnlinkCall(f), RmdirCall(d), RmdirCall(e)>>]}

InitRmdir ==
    /\ InitFs
    /\ \E p \in RmdirPaths, k \in RmdirKids :
          script = [t \in Threads |->
                      IF t = Main
                      THEN <<MkdirCall(<<"", "d">>),
                             OpenCall(<<"", "g">>, {O_CREAT, O_RDONLY})>>
                           \o k.make \o <<RmdirCall(p)>> \o k.undo
                           \o <<RmdirCall(<<"", "d">>)>>
                      ELSE <<>>]

NextRmdir ==
    \E t \in Threads :
        \/ MkdirResolve(t) \/ MkdirCreate(t) \/ RmdirResolve(t) \/ RmdirRemove(t)
        \/ OpenSteps(t) \/ UnlinkResolve(t) \/ UnlinkRemove(t)

SpecRmdir == InitRmdir /\ [][NextRmdir]_vars

\* Main has returned from a call and not started the next one.
HasReturned == pc[Main] = "idle" /\ ip[Main] > 1
\* The call Main returned from last: its index, its arguments, its result
\* and the state it started in (snap[Main] is what it observed).
Prev == ip[Main] - 1
PrevCall == script[Main][Prev]
PrevRet == ret[Main][Prev]
PrevPre == Pre(Prev)

\* C21: rmdir(p) returns ENOENT when p is absent, ENOTDIR when p is a file,
\* ENOTEMPTY when p is a directory with a child, and leaves the file system
\* as it was; when p is an empty directory (from the start, or since its
\* last child was unlinked or removed) it succeeds, p is absent afterwards
\* and nothing else has changed.
C21_RmdirContract ==
    (HasReturned /\ PrevCall.op = "rmdir")
        => LET e == snap[Main].entry
               n == snap[Main].node
               empty == PrevPre.children[n] = <<>>
           IN
           /\ e = "absent" => (PrevRet = Err("ENOENT") /\ FsState = PrevPre)
           /\ e = "file" => (PrevRet = Err("ENOTDIR") /\ FsState = PrevPre)
           /\ (e = "dir" /\ ~empty) => (PrevRet = Err("ENOTEMPTY") /\ FsState = PrevPre)
           /\ (e = "dir" /\ empty) =>
                 /\ PrevRet = Ok(0)
                 /\ PathKind(PrevCall.path) = "absent"
                 /\ \E d \in Nodes : \E name \in DOMAIN PrevPre.children[d] :
                       /\ PrevPre.children[d][name] = n
                       /\ FsState = [PrevPre EXCEPT !.children[d] =
                                        [x \in DOMAIN @ \ {name} |-> @[x]]]

\* C21, its case: /d held a file and a directory; rmdir(/d) returned
\* ENOTEMPTY with both and with one of them left, and succeeded after the
\* last one was removed.
C21_Witness ==
    /\ AllDone
    /\ Len(script[Main]) = 9
    /\ script[Main][5].path = <<"", "d">>
    /\ ret[Main][5] = Err("ENOTEMPTY")
    /\ ret[Main][7] = Err("ENOTEMPTY")
    /\ ret[Main][8] = Ok(0)
    /\ ret[Main][9] = Ok(0)
    /\ ~Has(Root, "d")

\* ------------------------------------------------------------------
\* Scenario "paths": one thread makes /d and /d/e, creates the file /f
\* (descriptor 0), perhaps creates NUMBER_OF_MAXIMUM_FILES - 1 more files,
\* perhaps changes to /d, and then makes one call (open without or with
\* O_CREAT, unlink, mkdir, rmdir or chdir) on one path.
\* The paths "", "/", ".", "..", "/." and "/..".
SpecialPaths == {<<"">>, <<"", "">>, <<".">>, <<"..">>, <<"", ".">>, <<"", "..">>}

\* q: a directory with a child, a file, a vacant name, an empty directory.
UnderRoot == {<<"d">>, <<"f">>, <<"n">>, <<"d", "e">>}
\* /q
Plain(q) == <<"">> \o q
\* /q, /../q, /../../q and ../q
AtRoot(q) == {Plain(q), <<"", "..">> \o q, <<"", "..", "..">> \o q, <<"..">> \o q}

\* Paths with a file before the last component, and a few more.
ThroughFile ==
    {<<"", "f", "x">>, <<"", "f", "x", "y">>, <<"", "d", "..", "f", "x">>,
     <<"", "f", "..">>}
OtherPaths ==
    {<<"", "x", "y">>, <<"d">>, <<"e">>, <<"", "d", "..">>, <<"", "d", "e", "">>}

PathsPaths ==
    SpecialPaths \cup UNION {AtRoot(q) : q \in UnderRoot} \cup ThroughFile
        \cup OtherPaths

PathsCalls ==
    UNION {{OpenCall(p, {O_RDONLY}), OpenCall(p, {O_CREAT, O_RDWR}), UnlinkCall(p),
            MkdirCall(p), RmdirCall(p), ChdirCall(p)} : p \in PathsPaths}

InitPaths ==
    /\ InitFs
    /\ \E last \in PathsCalls, fill \in {<<>>, Filler},
          cd \in {<<>>, <<ChdirCall(<<"", "d">>)>>} :
          script = [t \in Threads |->
                      IF t = Main
                      THEN <<MkdirCall(<<"", "d">>), MkdirCall(<<"", "d", "e">>),
                             OpenCall(<<"", "f">>, {O_CREAT, O_RDWR})>>
                           \o fill \o cd \o <<last>>
                      ELSE <<>>]

NextPaths ==
    \E t \in Threads :
        \/ MkdirResolve(t) \/ MkdirCreate(t) \/ RmdirResolve(t) \/ RmdirRemove(t)
        \/ OpenSteps(t) \/ UnlinkResolve(t) \/ UnlinkRemove(t) \/ Chdir(t)

SpecPaths == InitPaths /\ [][NextPaths]_vars

\* The error that the claim gives for a call on a special path ("": none).
SpecialError(c) ==
    CASE c.path = <<"">> -> "ENOENT"
      [] c.op = "mkdir" /\ c.path \in {<<"", "">>, <<".">>, <<"..">>} -> "EEXIST"
      [] c.op = "rmdir" /\ c.path = <<"", "">> -> "EBUSY"
      [] c.op = "rmdir" /\ c.path = <<"", ".">> -> "EINVAL"
      [] c.op = "rmdir" /\ c.path = <<"", "..">> -> "ENOTEMPTY"
      [] OTHER -> ""

\* C22: open(""), mkdir(""), rmdir(""), unlink("") and chdir("") return
\* ENOENT; mkdir("/"), mkdir(".") and mkdir("..") return EEXIST; rmdir("/")
\* returns EBUSY, rmdir("/.") EINVAL and rmdir("/..") ENOTEMPTY; in every
\* state, and the state is left as it was.
C22_SpecialPaths ==
    (LastReturned /\ SpecialError(LastCall) # "")
        => (LastRet = Err(SpecialError(LastCall)) /\ FsState = LastPre)

\* The last call of Main is on a path of AtRoot(q): q, and what /q named
\* when the call started.
LastQ == CHOOSE q \in UnderRoot : LastCall.path \in AtRoot(q)
LastQKind ==
    LET n == LastPre.children[Root]
        first == LastQ[1]
    IN
    IF first \notin DOMAIN n THEN "absent"
    ELSE IF Len(LastQ) = 1 THEN LastPre.kind[n[first]]
    ELSE IF LastQ[2] \in DOMAIN LastPre.children[n[first]]
         THEN LastPre.kind[LastPre.children[n[first]][LastQ[2]]]
         ELSE "absent"
LastQNode ==
    LET n == LastPre.children[Root] IN
    IF Len(LastQ) = 1 THEN n[LastQ[1]] ELSE LastPre.children[n[LastQ[1]]][LastQ[2]]

\* What a call on /q returns, by the kind of /q (a directory q is empty or
\* not); an open returns the next descriptor.
OnPlain(c, k, empty, pool, count) ==
    CASE c.op = "mkdir" -> IF k = "absent" THEN Ok(0) ELSE Err("EEXIST")
      [] c.op = "rmdir" -> IF k = "absent" THEN Err("ENOENT")
                           ELSE IF k = "file" THEN Err("ENOTDIR")
                           ELSE IF empty THEN Ok(0) ELSE Err("ENOTEMPTY")
      [] c.op = "unlink" -> IF k = "absent" THEN Err("ENOENT")
                            ELSE IF k = "file" THEN Ok(0) ELSE Err("EISDIR")
      [] c.op = "chdir" -> IF k = "absent" THEN Err("ENOENT")
                           ELSE IF k = "file" THEN Err("ENOTDIR") ELSE Ok(0)
      [] c.op = "open" ->
            IF k = "dir" THEN Err("EISDIR")
            ELSE IF k = "file" THEN Ok(count)
            ELSE IF O_CREAT \notin c.flag THEN Err("ENOENT")
            ELSE IF pool = 0 THEN Err("ENOMEM") ELSE Ok(count)

\* C23: a call on /../q, /../../q or ../q (cwd the root) returns what the
\* same call on /q returns from the same state, and has the same effect: the
\* same names in every directory, the same cwd, the same descriptors.
\* (The calls on /q itself are held to the same table, which shows that the
\* table is what /q does. The open with O_CREAT of the coarse-grained build
\* takes its buffer before it looks at the path and is left out here.)
C23_DotDotAtRoot ==
    (/\ LastReturned
     /\ \E q \in UnderRoot : LastCall.path \in AtRoot(q)
     /\ (~is_absolute_path(LastCall.path) => LastPre.cwd_node = Root)
     /\ ~(feature = "coarse" /\ LastCall.op = "open" /\ O_CREAT \in LastCall.flag))
        => LET k == LastQKind
               empty == k = "dir" /\ LastPre.children[LastQNode] = <<>>
               want == OnPlain(LastCall, k, empty, LastPre.file_memory,
                               LastPre.file_descriptor_count)
           IN
           /\ LastRet = want
           /\ ~IsOk(want) => FsState = LastPre
           /\ (IsOk(want) /\ LastCall.op = "chdir") =>
                 FsState = [LastPre EXCEPT !.cwd_node = LastQNode]
           /\ (IsOk(want) /\ LastCall.op \in {"rmdir", "unlink"}) =>
                 /\ PathKind(Plain(LastQ)) = "absent"
                 /\ cwd_node = LastPre.cwd_node
                 /\ file_descriptors = LastPre.file_descriptors
           /\ (IsOk(want) /\ LastCall.op = "mkdir") =>
                 /\ PathKind(Plain(LastQ)) = "dir"
                 /\ cwd_node = LastPre.cwd_node
                 /\ file_descriptors = LastPre.file_descriptors
           /\ (IsOk(want) /\ LastCall.op = "open") =>
                 /\ PathKind(Plain(LastQ)) = "file"
                 /\ desc[LastRet.val].entry = PathNode(Plain(LastQ))
                 /\ file_descriptors = LastPre.file_descriptors \cup {LastRet.val}

\* C24: chdir(p) succeeds exactly when p resolves to a directory or, through
\* "..", to the root; then cwd is that directory and nothing else has
\* changed; a p that names a file or passes through a file gives ENOTDIR, a
\* p with a missing component and the empty p give ENOENT, and a failing
\* chdir changes nothing.
C24_ChdirContract ==
    (LastReturned /\ LastCall.op = "chdir")
        => LET e == snap[Main].entry
               n == snap[Main].node
           IN
           /\ IsOk(LastRet) <=> e \in {"dir", "root"}
           /\ e = "dir" => (LastRet = Ok(0) /\ FsState = [LastPre EXCEPT !.cwd_node = n])
           /\ e = "root" => (LastRet = Ok(0) /\ FsState = [LastPre EXCEPT !.cwd_node = Root])
           /\ ~IsOk(LastRet) => FsState = LastPre
           /\ e = "file" => LastRet = Err("ENOTDIR")
           /\ LastCall.path \in ThroughFile => LastRet = Err("ENOTDIR")
           /\ LastCall.path \in {<<"">>, <<"", "n">>, <<"", "x", "y">>}
                 => LastRet = Err("ENOENT")

\* C24, its case: from /d, chdir("..") made the root the cwd.
C24_Witness ==
    /\ LastReturned
    /\ LastCall.op = "chdir"
    /\ LastCall.path = <<"..">>
    /\ LastPre.cwd_node # Root
    /\ LastRet = Ok(0)
    /\ cwd_node = Root

\* C25: every call (open without or with O_CREAT, unlink, mkdir, rmdir,
\* chdir) on a path with an existing file before its last component returns
\* ENOTDIR and changes nothing, also when the file is the parent of the last
\* component.
C25_FileInPath ==
    (LastReturned /\ LastCall.path \in ThroughFile)
        => (LastRet = Err("ENOTDIR") /\ FsState = LastPre)

\* ------------------------------------------------------------------
\* Scenario "pool": Main creates NUMBER_OF_MAXIMUM_FILES - 1 files and
\* perhaps unlinks the first of them; then every worker calls
\* open(p, O_CREAT|O_RDWR) on /f or /g, so that there is one buffer for
\* NWorkers opens.
InitPool ==
    /\ InitFs
    /\ \E ps \in [Workers -> {<<"", "f">>, <<"", "g">>}],
          un \in {<<>>, <<UnlinkCall(<<"", "1">>)>>} :
          script = [t \in Threads |->
                      IF t = Main THEN Filler \o un \o <<JoinCall>>
                      ELSE <<OpenCall(ps[t], {O_CREAT, O_RDWR})>>]

NextPool ==
    \/ Join
    \/ \E t \in Threads : OpenSteps(t) \/ UnlinkResolve(t) \/ UnlinkRemove(t)

SpecPool == InitPool /\ [][NextPool]_vars

\* The files that are named in the tree or held by a descriptor of the table.
LiveFiles ==
    {n \in Nodes :
        /\ kind[n] = "file"
        /\ \/ \E d \in Nodes : /\ kind[d] = "dir"
                               /\ Attached(d, MaxNodes)
                               /\ \E name \in DOMAIN children[d] : children[d][name] = n
           \/ \E fd \in file_descriptors : desc[fd].entry = n}

\* The opens that have returned a descriptor.
OkOpens ==
    {<<t, i>> \in Threads \X (1..(NUMBER_OF_MAXIMUM_FILES + 2)) :
        i <= Len(ret[t]) /\ script[t][i].op = "open" /\ IsOk(ret[t][i])}

\* C26: in every state at most NUMBER_OF_MAXIMUM_FILES files are live; an
\* open with O_CREAT that starts with the pool empty on a vacant name that no
\* other thread creates (it has to create the file) returns ENOMEM; and an
\* open that returned ENOMEM has taken no descriptor
\* id (the counter is the number of descriptors handed out) and has inserted
\* no entry (its name is absent unless another open has created it).
C26_PoolBoundsFiles ==
    /\ Cardinality(LiveFiles) <= NUMBER_OF_MAXIMUM_FILES
    /\ \A w \in Workers :
          (/\ Len(ret[w]) = 1
           /\ snap[w].pool = 0
           /\ snap[w].entry = "absent"
           /\ \A v \in Workers \ {w} : script[v][1].path # script[w][1].path)
              => ret[w][1] = Err("ENOMEM")
    /\ AllDone =>
          /\ file_descriptor_count = Cardinality(OkOpens)
          /\ \A w \in Workers :
                (/\ ret[w][1] = Err("ENOMEM")
                 /\ \A v \in Workers :
                       script[v][1].path = script[w][1].path => ~IsOk(ret[v][1]))
                    => PathKind(script[w][1].path) = "absent"

\* C26, its case: the workers opened two names with one buffer left; one
\* got it, one that started when the pool was empty got ENOMEM, and its name
\* is absent.
C26_Witness ==
    /\ AllDone
    /\ file_memory = 0
    /\ Cardinality(LiveFiles) = NUMBER_OF_MAXIMUM_FILES
    /\ \E w \in Workers :
          /\ ret[w][1] = Err("ENOMEM")
          /\ snap[w].pool = 0
          /\ snap[w].entry = "absent"
          /\ PathKind(script[w][1].path) = "absent"
    /\ \E w \in Workers : IsOk(ret[w][1])

\* ------------------------------------------------------------------
\* Scenario "mixed": Main makes /d, then every worker calls mkdir(p) or
\* open(p, O_CREAT|O_RDWR) on the one vacant path p.
InitMixed ==
    /\ InitFs
    /\ \E p \in {<<"", "f">>, <<"", "d", "f">>},
          c \in [Workers -> {"mkdir", "open"}] :
          script = [t \in Threads |->
                      IF t = Main THEN <<MkdirCall(<<"", "d">>), JoinCall>>
                      ELSE IF c[t] = "mkdir" THEN <<MkdirCall(p)>>
                      ELSE <<OpenCall(p, {O_CREAT, O_RDWR})>>]

SpecMixed == InitMixed /\ [][NextExcl]_vars

\* The workers that called mkdir, and those that called open.
Makers == {w \in Workers : script[w][1].op = "mkdir"}
Openers == {w \in Workers : script[w][1].op = "open"}

\* C27: when mkdir(p) and open(p, O_CREAT|M) race on a vacant name, one call
\* creates the entry and the others observe it. Either one mkdir succeeded:
\* then p is a directory at the end, the other mkdirs returned EEXIST and
\* the opens EISDIR; or no mkdir succeeded: then an open created the file,
\* every mkdir returned EEXIST and every open returned a descriptor of the
\* one file that p names at the end. An entry reported created is never
\* replaced.
C27_OneCreator ==
    AllDone =>
        LET p == script[1][1].path
            made == {w \in Makers : IsOk(ret[w][1])}
        IN
        /\ Cardinality(made) <= 1
        /\ \A w \in Makers \ made : ret[w][1] = Err("EEXIST")
        /\ made # {} =>
              /\ PathKind(p) = "dir"
              /\ \A w \in Openers : ret[w][1] = Err("EISDIR")
        /\ made = {} =>
              /\ PathKind(p) = "file"
              /\ \A w \in Openers :
                    /\ IsOk(ret[w][1])
                    /\ desc[ret[w][1].val].entry = PathNode(p)

\* ------------------------------------------------------------------
\* Scenario "mono": Main creates /f (descriptor 0), writes two bytes and
\* seeks back to 0; then every worker reads or writes through descriptor 0,
\* once or twice, and no one calls lseek.
MonoPrograms ==
    {<<ReadCall(0, 2, 2)>>,
     <<WriteCall(0, <<2>>, 1)>>,
     <<WriteCall(0, <<2, 2>>, 2)>>,
     <<ReadCall(0, 1, 1), WriteCall(0, <<2>>, 1)>>}

InitMono ==
    /\ InitFs
    /\ \E prog \in [Workers -> MonoPrograms] :
          script = [t \in Threads |->
                      IF t = Main
                      THEN <<OpenCall(TheFile, {O_CREAT, O_RDWR}),
                             WriteCall(0, <<1, 1>>, 2),
                             LseekCall(0, 0, "SEEK_SET"),
                             JoinCall>>
                      ELSE prog[t]]

NextMono == Join \/ \E t \in Threads : OpenSteps(t) \/ IoSteps(t)

SpecMono == InitMono /\ [][NextMono]_vars

\* C28: a step that is not the store of an lseek never lowers the offset of
\* a descriptor, also when several threads read and write through it at the
\* same time.
C28_OffsetMonotonic ==
    [][\A fd \in file_descriptors :
          (\A t \in Threads : pc[t] # "s_store")
              => desc'[fd].file_offset >= desc[fd].file_offset]_vars

\* ------------------------------------------------------------------
\* Scenario "publish": Main creates /f (descriptor 0), opens it for reading
\* (descriptor 1) and for appending (descriptor 2) and writes one byte 1;
\* then every worker writes bytes 2 after it through descriptor 0, appends a
\* byte 2 through descriptor 2, or reads the file through descriptor 1.
PublishPrograms ==
    {<<WriteCall(0, <<2, 2>>, 2)>>,
     <<WriteCall(2, <<2>>, 1)>>,
     <<ReadCall(1, FILE_MAX_SIZE, FILE_MAX_SIZE)>>}

InitPublish ==
    /\ InitFs
    /\ \E prog \in [Workers -> PublishPrograms] :
          script = [t \in Threads |->
                      IF t = Main
                      THEN <<OpenCall(TheFile, {O_CREAT, O_RDWR}),
                             OpenCall(TheFile, {O_RDONLY}),
                             OpenCall(TheFile, {O_WRONLY, O_APPEND}),
                             WriteCall(0, <<1>>, 1),
                             LseekCall(0, 0, "SEEK_END"),
                             JoinCall>>
                      ELSE prog[t]]

NextPublish ==
    \/ Join
    \/ \E t \in Threads : OpenSteps(t) \/ IoSteps(t) \/ WriteLock(t)

SpecPublish == InitPublish /\ [][NextPublish]_vars

\* C29: a read returns written bytes for every position below the size it
\* loaded. Every byte written in this scenario is 1 or 2 and the buffer of
\* the file starts as zeros, so no byte that a read returns is 0.
C29_ReadSeesPublished ==
    \A w \in Workers : \A i \in 1..Len(ret[w]) :
        (script[w][i].op = "read" /\ IsOk(ret[w][i]))
            => \A j \in 1..ret[w][i].val : ret[w][i].buf[j] # 0

\* ------------------------------------------------------------------
\* Scenario "appendat": one thread creates /f (descriptor 0, O_RDWR), opens
\* it again with O_APPEND (descriptor 1, O_WRONLY or O_RDWR), writes n bytes
\* through descriptor 0, seeks descriptor 1 to a position, and writes
\* through descriptor 1.
AppendAtWrites ==
    {WriteCall(1, [i \in 1..len |-> MaxByte], sz) : len \in 0..3, sz \in {1, 3}}

AppendAtSeeks ==
    {LseekCall(1, k, whence) :
        k \in 0..FILE_MAX_SIZE, whence \in {"SEEK_SET", "SEEK_END"}}

InitAppendAt ==
    /\ InitFs
    /\ \E m \in {O_WRONLY, O_RDWR}, n \in 1..(FILE_MAX_SIZE - 1),
          seek \in AppendAtSeeks, last \in AppendAtWrites :
          script = [t \in Threads |->
                      IF t = Main
                      THEN <<OpenCall(TheFile, {O_CREAT, O_RDWR}),
                             OpenCall(TheFile, {m, O_APPEND}),
                             WriteCall(0, RwContent(n), n),
                             seek,
                             last>>
                      ELSE <<>>]

NextAppendAt ==
    \E t \in Threads :
        \/ OpenSteps(t)
        \/ WriteBegin(t) \/ WriteLock(t) \/ WriteSize(t) \/ WriteCopy(t)
        \/ WriteOffset(t)
        \/ LseekBegin(t) \/ LseekSize(t) \/ LseekStore(t)

SpecAppendAt == InitAppendAt /\ [][NextAppendAt]_vars

\* C30: a write of W bytes through an O_APPEND descriptor, with the file
\* of size S and S + W within FILE_MAX_SIZE, succeeds with W wherever the
\* descriptor's offset was (a preceding lseek has moved it); afterwards the
\* bytes of the buffer are at [S, S + W), the bytes below S are as they
\* were, and the file's size and the descriptor's offset are both S + W.
C30_AppendAtSize ==
    LET W == IF LastCall.size < Len(LastCall.buffer)
             THEN LastCall.size ELSE Len(LastCall.buffer)
        f == LastDesc.entry
    IN
    (LastReturned /\ LastCall.op = "write" /\ O_APPEND \in LastDesc.flag
        /\ LastS + W <= FILE_MAX_SIZE)
        => /\ LastRet = Ok(W)
           /\ \A i \in 1..FILE_MAX_SIZE :
                 data[f][i] = IF LastS < i /\ i <= LastS + W
                              THEN LastCall.buffer[i - LastS]
                              ELSE LastPre.data[f][i]
           /\ size[f] = LastS + W
           /\ desc[LastCall.fd].file_offset = LastS + W

\* C30, its case: the descriptor was moved to offset 0 by lseek, the file
\* had 2 bytes, and an append of 1 byte left the byte at position 2, the
\* first two bytes in place, and the size and the offset at 3.
C30_Witness ==
    /\ LastReturned
    /\ LastCall.op = "write"
    /\ O_APPEND \in LastDesc.flag
    /\ script[Main][4] = LseekCall(1, 0, "SEEK_SET")
    /\ LastO = 0
    /\ LastS = 2
    /\ LastRet = Ok(1)
    /\ data[LastDesc.entry][1] = 1
    /\ data[LastDesc.entry][2] = 2
    /\ data[LastDesc.entry][3] = MaxByte
    /\ size[LastDesc.entry] = 3
    /\ desc[1].file_offset = 3

\* ------------------------------------------------------------------
\* Scenario "total": Main creates /f (descriptor 0), fills it up to
\* FILE_MAX_SIZE and seeks back to 0; every worker reads, writes or seeks
\* through descriptor 0; after they are done Main reads through it.
TotalPrograms ==
    {<<ReadCall(0, FILE_MAX_SIZE, FILE_MAX_SIZE)>>,
     <<ReadCall(0, 1, 1)>>,
     <<WriteCall(0, <<2>>, 1)>>,
     <<LseekCall(0, 1, "SEEK_CUR")>>}

InitTotal ==
    /\ InitFs
    /\ \E prog \in [Workers -> TotalPrograms] :
          script = [t \in Threads |->
                      IF t = Main
                      THEN <<OpenCall(TheFile, {O_CREAT, O_RDWR}),
                             WriteCall(0, RwContent(FILE_MAX_SIZE), FILE_MAX_SIZE),
                             LseekCall(0, 0, "SEEK_SET"),
                             JoinCall,
                             ReadCall(0, 1, 1)>>
                      ELSE prog[t]]

NextTotal == Join \/ \E t \in Threads : OpenSteps(t) \/ IoSteps(t)

SpecTotal == InitTotal /\ [][NextTotal]_vars

\* C31: no call panics: every call of every thread returns a success value
\* or a typed error; a read whose descriptor's offset is beyond
\* FILE_MAX_SIZE indexes the file's buffer outside [0, FILE_MAX_SIZE] and
\* panics.
C31_NoPanic ==
    \A t \in Threads : \A i \in 1..Len(ret[t]) : ret[t][i].err # "panic"

\* ------------------------------------------------------------------
\* Scenario "windows": Main creates /f (descriptor 0), opens it once more
\* for every worker (descriptor w for worker w), writes FILE_MAX_SIZE - 1
\* bytes through descriptor 0 and seeks every descriptor w to position
\* w - 1 or w;
\* then worker w writes, reads or seeks through its own descriptor w.
WindowPositions(w) == {w - 1, w}

WindowPrograms(w) ==
    {<<WriteCall(w, <<w, w>>, 2)>>,
     <<WriteCall(w, <<w, w>>, 1)>>,
     <<ReadCall(w, 2, 2)>>,
     <<LseekCall(w, 1, "SEEK_CUR")>>}

InitWindows ==
    /\ InitFs
    /\ \E pos \in [Workers -> 0..NWorkers] :
       \E prog \in [Workers -> UNION {WindowPrograms(w) : w \in Workers}] :
          /\ \A w \in Workers : pos[w] \in WindowPositions(w)
          /\ \A w \in Workers : prog[w] \in WindowPrograms(w)
          /\ script = [t \in Threads |->
                        IF t = Main
                        THEN <<OpenCall(TheFile, {O_CREAT, O_RDWR})>>
                             \o [w \in Workers |-> OpenCall(TheFile, {O_RDWR})]
                             \o <<WriteCall(0, RwContent(FILE_MAX_SIZE - 1),
                                            FILE_MAX_SIZE - 1)>>
                             \o [w \in Workers |-> LseekCall(w, pos[w], "SEEK_SET")]
                             \o <<JoinCall>>
                        ELSE prog[t]]

SpecWindows == InitWindows /\ [][NextMono]_vars

\* The byte range [lo, hi) that worker w writes: from the position Main
\* moved descriptor w to, as many bytes as the smaller of the size argument
\* and the buffer's length; nothing when w does not write.
WindowLo(w) == script[Main][NWorkers + 2 + w].size
WindowHi(w) ==
    LET c == script[w][1] IN
    WindowLo(w) + (IF c.op # "write" THEN 0
                   ELSE IF c.size < Len(c.buffer) THEN c.size ELSE Len(c.buffer))

\* C32: a step of worker w, who works through descriptor w, leaves every
\* other descriptor (offset and flags) as it was; and once worker w has
\* returned from a write whose byte range meets no other worker's range,
\* the range holds the bytes w wrote, however the writes interleaved.
C32_IndependentWindows ==
    /\ [][\A w \in Workers :
            (pc'[w] # pc[w] \/ ip'[w] # ip[w])
                => \A fd \in file_descriptors \ {w} : desc'[fd] = desc[fd]]_vars
    /\ [](\A w \in Workers :
            (/\ Len(ret[w]) = 1
             /\ \A v \in Workers \ {w} :
                   WindowHi(v) <= WindowLo(w) \/ WindowHi(w) <= WindowLo(v))
                => \A i \in (WindowLo(w) + 1)..WindowHi(w) :
                      data[PathNode(TheFile)][i] = script[w][1].buffer[i - WindowLo(w)])

\* C32, its case: both workers have written, worker 1 the bytes [0, 2) and
\* worker 2 the bytes [2, 4); each range holds its writer's bytes and each
\* descriptor stands at the end of its own range.
C32_Witness ==
    /\ AllDone
    /\ \A w \in Workers : script[w][1].op = "write" /\ ret[w] = <<Ok(2)>>
    /\ WindowLo(1) = 0
    /\ WindowLo(2) = 2
    /\ \A w \in Workers :
          /\ desc[w].file_offset = WindowHi(w)
          /\ \A i \in (WindowLo(w) + 1)..WindowHi(w) : data[PathNode(TheFile)][i] = w

\* ------------------------------------------------------------------
\* Scenario "name": the root is empty and the pool holds a buffer for every
\* worker; every worker calls open(/f, O_CREAT | O_RDWR), unlink(/f),
\* mkdir(/f), or unlink(/f) and then open(/f, O_CREAT | O_RDWR).
NamePrograms ==
    {<<OpenCall(TheFile, {O_CREAT, O_RDWR})>>,
     <<UnlinkCall(TheFile)>>,
     <<MkdirCall(TheFile)>>,
     <<UnlinkCall(TheFile), OpenCall(TheFile, {O_CREAT, O_RDWR})>>}

InitName ==
    /\ InitFs
    /\ \E prog \in [Workers -> NamePrograms] :
          script = [t \in Threads |-> IF t = Main THEN <<JoinCall>> ELSE prog[t]]

NextName ==
    \/ Join
    \/ \E t \in Threads :
          \/ OpenSteps(t) \/ UnlinkResolve(t) \/ UnlinkRemove(t)
          \/ MkdirResolve(t) \/ MkdirCreate(t)

SpecName == InitName /\ [][NextName]_vars

\* C33: open(p, O_CREAT | M) with a valid mode, the existing parent
\* directory / and a buffer in the pool never returns ENOENT, whatever
\* unlink(p), mkdir(p) or open(p) of other threads run between its steps.
C33_OpenCreateNeverEnoent ==
    \A w \in Workers : \A i \in 1..Len(ret[w]) :
        (script[w][i].op = "open" /\ snap[w].pool > 0) => ret[w][i].err # "ENOENT"

\* ------------------------------------------------------------------
\* The coarse-grained build, lock by lock: every entry n is an
\* RwLock<MemFSEntry> ("entry") and every directory holds its map in an
\* RwLock ("children"). A guard <<t, n, "entry.read">> etc. is in locks as
\* long as thread t holds it; the guards of a path resolution are dropped
\* together when the resolution returns.
rwlock_read(t, n, lock) ==
    \A u \in Threads \ {t} : <<u, n, lock \o ".write">> \notin locks

rwlock_write(t, n, lock) ==
    \A u \in Threads \ {t} :
        <<u, n, lock \o ".read">> \notin locks /\ <<u, n, lock \o ".write">> \notin locks

\* mkdir and rmdir after get_parent_directory_node_of_given_path has
\* returned dir_node (its guards are dropped): the check of the last
\* component, then on to dir_node.write().
CoarseResolved(t, dir_node) ==
    LET op == Cur(t).op
        last_elem == get_last_component_of_path(Cur(t).path)
    IN
    /\ locks' = Release(t)
    /\ IF op = "mkdir" /\ last_elem \in {".", ".."} THEN Finish(t, Err("EEXIST"))
       ELSE IF op = "rmdir" /\ last_elem = "." THEN Finish(t, Err("EINVAL"))
       ELSE IF op = "rmdir" /\ last_elem = ".." THEN Finish(t, Err("ENOTEMPTY"))
       ELSE IF dir_node = ResolvedAsRoot
       THEN Finish(t, Err(IF op = "mkdir" THEN "EEXIST" ELSE "EBUSY"))
       ELSE Goto(t, "k_entry_w",
                 [L0 EXCEPT !.parent_node = dir_node, !.last_elem = last_elem])

\* A step of a path resolution that returns the error e.
CoarseFailed(t, e) == Finish(t, Err(e)) /\ locks' = Release(t)

\* mkdir, rmdir (coarse-grained): the checks of the path and
\* get_parent_directory_node_of_given_path up to the first lock.
CoarseBegin(t) ==
    /\ \E op \in {"mkdir", "rmdir"} : Ready(t, op)
    /\ feature = "coarse"
    /\ LET path == Cur(t).path
           iter == path_str_to_iter_and_without_last_component(path)
           starting_node == IF is_absolute_path(path) THEN Root ELSE cwd_node
       IN
       IF path_is_root(path)
       THEN CoarseFailed(t, IF Cur(t).op = "mkdir" THEN "EEXIST" ELSE "EBUSY")
       ELSE IF path_is_empty(path) THEN CoarseFailed(t, "ENOENT")
       ELSE IF iter = <<>> THEN CoarseResolved(t, starting_node)
       ELSE /\ Goto(t, "k_entry_r",
                    [L0 EXCEPT !.parent_node = starting_node, !.iter = iter])
            /\ UNCHANGED locks
    /\ UNCHANGED <<feature, treeVars, fileVars, cwd_node, fdVars, file_memory,
                   script>>

\* Path resolution: the read lock of an entry (the starting node, a
\* component's entry v.read(), or the parent's inner.read() for ".."), and
\* the match on the entry.
CoarseEntryRead(t) ==
    /\ pc[t] = "k_entry_r"
    /\ LET n == loc[t].parent_node IN
       /\ rwlock_read(t, n, "entry")
       /\ IF kind[n] # "dir" THEN CoarseFailed(t, "ENOTDIR")
          ELSE IF loc[t].iter = <<>> THEN CoarseResolved(t, n)
          ELSE /\ Goto(t, "k_children_r", loc[t])
               /\ locks' = locks \cup {<<t, n, "entry.read">>}
    /\ UNCHANGED <<feature, treeVars, fileVars, cwd_node, fdVars, file_memory,
                   script>>

\* search_entry_with_path (coarse-grained): self.children.read() and the
\* match on the next component.
CoarseChildrenRead(t) ==
    /\ pc[t] = "k_children_r"
    /\ LET n == loc[t].parent_node
           current_path == loc[t].iter[1]
           rest == Tail(loc[t].iter)
           held == locks \cup {<<t, n, "children.read">>}
       IN
       /\ rwlock_read(t, n, "children")
       /\ IF Has(n, current_path) THEN
              IF rest = <<>> THEN CoarseResolved(t, children[n][current_path])
              ELSE /\ Goto(t, "k_entry_r",
                           [loc[t] EXCEPT !.parent_node = children[n][current_path],
                                          !.iter = rest])
                   /\ locks' = held
          ELSE IF current_path # ".." THEN CoarseFailed(t, "ENOENT")
          ELSE IF parent[n] = NoNode THEN
              IF rest = <<>> THEN CoarseResolved(t, ResolvedAsRoot)
              ELSE /\ Goto(t, "k_children_r", [loc[t] EXCEPT !.iter = rest])
                   /\ locks' = held
          ELSE IF upgrade(parent[n]) = NoNode THEN CoarseFailed(t, "ENOENT")
          ELSE /\ Goto(t, "k_entry_r",
                       [loc[t] EXCEPT !.parent_node = parent[n], !.iter = rest])
               /\ locks' = held
    /\ UNCHANGED <<feature, treeVars, fileVars, cwd_node, fdVars, file_memory,
                   script>>

\* mkdir, rmdir (coarse-grained): dir_node.write() and the match on it.
CoarseEntryWrite(t) ==
    /\ pc[t] = "k_entry_w"
    /\ LET n == loc[t].parent_node IN
       /\ rwlock_write(t, n, "entry")
       /\ IF kind[n] # "dir" THEN CoarseFailed(t, "ENOENT")
          ELSE /\ Goto(t, "k_children_w", loc[t])
               /\ locks' = locks \cup {<<t, n, "entry.write">>}
    /\ UNCHANGED <<feature, treeVars, fileVars, cwd_node, fdVars, file_memory,
                   script>>

\* create_new_directory, remove_directory (coarse-grained):
\* self.children.write(); mkdir inserts if absent and returns; rmdir looks
\* the name up.
CoarseChildrenWrite(t) ==
    /\ pc[t] = "k_children_w"
    /\ LET d == loc[t].parent_node
           name == loc[t].last_elem
           n == FreshNode
       IN
       /\ rwlock_write(t, d, "children")
       /\ IF Cur(t).op = "mkdir" THEN
              IF Has(d, name) THEN CoarseFailed(t, "EEXIST") /\ UNCHANGED treeVars
              ELSE /\ kind' = [kind EXCEPT ![n] = "dir"]
                   /\ parent' = [parent EXCEPT ![n] = d]
                   /\ children' = [children EXCEPT ![d] = map_insert(@, name, n),
                                                   ![n] = <<>>]
                   /\ Finish(t, Ok(0))
                   /\ locks' = Release(t)
          ELSE IF ~Has(d, name) THEN CoarseFailed(t, "ENOENT") /\ UNCHANGED treeVars
          ELSE /\ Goto(t, "k_child_w", [loc[t] EXCEPT !.file_node = children[d][name]])
               /\ locks' = locks \cup {<<t, d, "children.write">>}
               /\ UNCHANGED treeVars
    /\ UNCHANGED <<feature, fileVars, cwd_node, fdVars, file_memory, script>>

\* remove_directory (coarse-grained): entry.write() on the entry found and
\* the match on it.
CoarseChildWrite(t) ==
    /\ pc[t] = "k_child_w"
    /\ LET n == loc[t].file_node IN
       /\ rwlock_write(t, n, "entry")
       /\ IF kind[n] # "dir" THEN CoarseFailed(t, "ENOTDIR")
          ELSE /\ Goto(t, "k_child_r", loc[t])
               /\ locks' = locks \cup {<<t, n, "entry.write">>}
    /\ UNCHANGED <<feature, treeVars, fileVars, cwd_node, fdVars, file_memory,
                   script>>

\* remove_directory (coarse-grained): dir_node.children.read(), the check
\* that it is empty, and guard.remove_entry.
CoarseChildRead(t) ==
    /\ pc[t] = "k_child_r"
    /\ LET d == loc[t].parent_node
           name == loc[t].last_elem
           r == remove_directory(d, name)
       IN
       /\ rwlock_read(t, loc[t].file_node, "children")
       /\ children' = IF IsOk(r) THEN [children EXCEPT ![d] = map_remove(@, name)]
                      ELSE children
       /\ Finish(t, r)
       /\ locks' = Release(t)
    /\ UNCHANGED <<feature, kind, parent, fileVars, cwd_node, fdVars, file_memory,
                   script>>

CoarseSteps(t) ==
    \/ CoarseBegin(t) \/ CoarseEntryRead(t) \/ CoarseChildrenRead(t)
    \/ CoarseEntryWrite(t) \/ CoarseChildrenWrite(t)
    \/ CoarseChildWrite(t) \/ CoarseChildRead(t)

\* ------------------------------------------------------------------
\* Scenario "latch": the coarse-grained build; Main makes /d and /d/e and
\* may change the working directory to /d/e; then every worker calls mkdir
\* or rmdir on a path below /d, some of them through "..".
LatchPrograms ==
    {<<RmdirCall(<<"", "d", "e">>)>>,
     <<MkdirCall(<<"", "d", "y">>)>>,
     <<MkdirCall(<<"..", "x">>)>>,
     <<MkdirCall(<<"", "d", "e", "..", "z">>)>>}

InitLatch ==
    /\ InitFs
    /\ feature = "coarse"
    /\ \E cd \in {<<>>, <<ChdirCall(<<"", "d", "e">>)>>},
          prog \in [Workers -> LatchPrograms] :
          script = [t \in Threads |->
                      IF t = Main
                      THEN <<MkdirCall(<<"", "d">>), MkdirCall(<<"", "d", "e">>)>>
                           \o cd \o <<JoinCall>>
                      ELSE prog[t]]

NextLatch == Join \/ \E t \in Threads : Chdir(t) \/ CoarseSteps(t)

\* Every thread that can take a step takes one eventually.
SpecLatch ==
    /\ InitLatch
    /\ [][NextLatch]_vars
    /\ WF_vars(Join)
    /\ \A t \in Threads : WF_vars(Chdir(t) \/ CoarseSteps(t))

\* C34: every call that was invoked returns: a thread that is inside a
\* call is outside of it again later, and every thread gets to the end of
\* its calls.
C34_EveryCallReturns ==
    /\ \A t \in Threads : (pc[t] # "idle") ~> (pc[t] = "idle")
    /\ <>AllDone

\* ------------------------------------------------------------------
\* Scenario "orphan": Main makes the empty directory /d; then every worker
\* calls rmdir(/d), open(/d/f, O_CREAT | O_RDWR) or mkdir(/d/x).
OrphanPrograms ==
    {<<RmdirCall(<<"", "d">>)>>,
     <<OpenCall(<<"", "d", "f">>, {O_CREAT, O_RDWR})>>,
     <<MkdirCall(<<"", "d", "x">>)>>}

InitOrphan ==
    /\ InitFs
    /\ \E prog \in [Workers -> OrphanPrograms] :
          script = [t \in Threads |->
                      IF t = Main THEN <<MkdirCall(<<"", "d">>), JoinCall>>
                      ELSE prog[t]]

NextOrphan ==
    \/ Join
    \/ \E t \in Threads :
          \/ MkdirResolve(t) \/ MkdirCreate(t) \/ RmdirResolve(t) \/ RmdirRemove(t)
          \/ OpenSteps(t)

SpecOrphan == InitOrphan /\ [][NextOrphan]_vars

\* C35: a directory that cannot be reached from the root any more (rmdir
\* has removed it) has no children: no open with O_CREAT and no mkdir puts
\* an entry into a directory that a concurrent rmdir removes.
C35_RemovedDirectoryIsEmpty ==
    \A n \in Nodes :
        (kind[n] = "dir" /\ ~Attached(n, MaxNodes)) => children[n] = <<>>

\* ------------------------------------------------------------------
\* C36: no step lowers the size of a file, whatever append and non-append
\* writes through the descriptors of the file interleave (scenario "io").
C36_SizeNeverDecreases ==
    [][\A n \in Nodes : size'[n] >= size[n]]_vars

\* ------------------------------------------------------------------
\* C37: no directory has a child named "" (empty), "." or "..", whatever
\* path open with O_CREAT or mkdir is called on (scenario "paths").
C37_NoNavigationNames ==
    \A n \in Nodes : DOMAIN children[n] \cap {"", ".", ".."} = {}

\* ------------------------------------------------------------------
\* C38: whenever no call is under way, the buffers left in the pool and the
\* file nodes created so far add up to NUMBER_OF_MAXIMUM_FILES: only the
\* creation of a file takes a buffer, an open that fails or that finds the
\* file takes none (scenario "flags").
C38_BuffersOnlyForFiles ==
    (\A t \in Threads : pc[t] = "idle")
        => file_memory + Cardinality({n \in Nodes : kind[n] = "file"})
               = NUMBER_OF_MAXIMUM_FILES

\* ------------------------------------------------------------------
\* C39: when every worker calls open(p, O_CREAT | O_RDWR) on the one vacant
\* path p and nobody unlinks it, every call succeeds and all the
\* descriptors returned name one file node, the one p names
\* (scenario "mixed", no mkdir among the calls).
C39_OnePathOneFile ==
    Makers = {} =>
        /\ \A w \in Workers : Len(ret[w]) = 1 => IsOk(ret[w][1])
        /\ \A v, w \in Workers :
              (Len(ret[v]) = 1 /\ Len(ret[w]) = 1 /\ IsOk(ret[v][1]) /\ IsOk(ret[w][1]))
                  => /\ desc[ret[v][1].val].entry = desc[ret[w][1].val].entry
                     /\ desc[ret[v][1].val].entry = PathNode(script[v][1].path)

\* ------------------------------------------------------------------
\* Scenario "back": one thread makes /a and /a/b, may create one more entry
\* below /a (a file or a directory, also through a path that ends in ".."),
\* and then calls chdir("/"), chdir(p) with a path p of /a/b, chdir("..")
\* and chdir("..").
BackPaths ==
    {<<"", "a", "b">>, <<"a", "b">>, <<"", "a", "b", "">>,
     <<"", "a", "..", "a", "b">>}

BackExtras ==
    {<<>>,
     <<MkdirCall(<<"", "a", "c">>)>>,
     <<OpenCall(<<"", "a", "b", "f">>, {O_CREAT, O_RDWR})>>,
     <<OpenCall(<<"", "a", "..">>, {O_CREAT, O_RDWR})>>,
     <<OpenCall(<<"", "a", "b", "..">>, {O_CREAT, O_RDWR})>>}

InitBack ==
    /\ InitFs
    /\ \E p \in BackPaths, extra \in BackExtras :
          script = [t \in Threads |->
                      IF t = Main
                      THEN <<MkdirCall(<<"", "a">>), MkdirCall(<<"", "a", "b">>)>>
                           \o extra
                           \o <<ChdirCall(<<"", "">>), ChdirCall(p),
                                ChdirCall(<<"..">>), ChdirCall(<<"..">>)>>
                      ELSE <<>>]

NextBack ==
    \E t \in Threads : MkdirResolve(t) \/ MkdirCreate(t) \/ OpenSteps(t) \/ Chdir(t)

SpecBack == InitBack /\ [][NextBack]_vars

\* C40: the root is the only directory without a parent reference, every
\* directory stored in a directory P has P as its parent, and after
\* chdir("/"), chdir("/a/b"), chdir(".."), chdir("..") the working
\* directory is the root.
C40_ParentsMatchTree ==
    /\ \A n \in Nodes : (kind[n] = "dir" /\ parent[n] = NoNode) => n = Root
    /\ \A P \in Nodes : \A name \in DOMAIN children[P] :
          kind[children[P][name]] = "dir" => parent[children[P][name]] = P
    /\ LastReturned => cwd_node = Root

====
